---- MODULE Spec2Model ----
(***************************************************************************)
(* Subscription pricing at checkout (the Billing page): the subtotal       *)
(* resolution chain, the add-on totals, the promo discount and the         *)
(* debounced promo validation and the invoice request; the website plans   *)
(* pricing draft of the admin page (SuperAdminSubscriptions); and the      *)
(* revealed server keys of the Midtrans card (useMidtransIntegration).     *)
(*                                                                         *)
(* Amounts are JavaScript numbers in the source.  Here an amount is an     *)
(* integer counting 1/Unit of a currency unit, so that halves, twelfths    *)
(* and hundredths of the amounts used are exact.  A nullable value is a    *)
(* sequence: Null is the empty sequence and Num(n) holds n.                *)
(***************************************************************************)
EXTENDS Integers, Sequences, FiniteSets, TLC

Unit == 12 * 100 * 2

Null == << >>

Num(n) == << n >>

Val(x) == x[1]

Money(whole, halves) == whole * Unit + halves * (Unit \div 2)

Max(a, b) == IF a >= b THEN a ELSE b

Min(a, b) == IF a <= b THEN a ELSE b

\* Math.round on an amount: the nearest whole currency unit, halves upward.
MathRound(u) == ((u + Unit \div 2) \div Unit) * Unit

(***************************************************************************)
(* Bounds of the model.                                                    *)
(***************************************************************************)
MaxRows == 2

MaxPlans == 2

MaxCalls == 2

MaxAddOns == 2

MaxInvoices == 2

VARIABLES
    subscriptionYears,      \* state.subscriptionYears: Null or a number of years
    durationRows,           \* usePackageDurations(...).rows
    durationsLoaded,        \* the duration fetch has completed
    pricing,                \* useOrderPublicSettings(...).pricing
    subscriptionPlans,      \* useOrderPublicSettings(...).subscriptionPlans
    settingsLoaded,         \* the public settings fetch has completed
    packageAddOnsTotal,     \* useOrderAddOns(...).total
    subscriptionAddOnsTable,\* the rows of table subscription_add_ons the fetch saw
    subscriptionAddOnItems, \* useSubscriptionAddOns: items
    subscriptionAddOns,     \* state.subscriptionAddOns: add-on id -> selected
    addOnsLoaded,           \* the add-on catalogs have been fetched
    promo,                  \* the promo input text (a sequence of characters)
    statePromoCode,         \* state.promoCode
    appliedPromo,           \* state.appliedPromo: Null or Num(record)
    timers,                 \* pending window.setTimeout callbacks
    tt,                     \* the timer handle held by the live effect's cleanup
    inflight,               \* validatePromoCode calls that have not returned
    nextReq,                \* number of validatePromoCode calls made so far
    lastDone,               \* history: how the last validation returned, and
                            \* whether a promo was applied when it did
    plans,                  \* SuperAdminSubscriptions: the subscription plan rows
    isEditingPlans,         \* SuperAdminSubscriptions: edit mode of the plans card
    pricingPackageId,       \* SuperAdminSubscriptions: the selected package id
    websitePlansPricingDraftByPackage,
                            \* SuperAdminSubscriptions: a draft per package key
    paying,                 \* Billing: a createXenditInvoice call is under way
    invoices,               \* the createXenditInvoice calls made so far
    toastTitle,             \* Billing: title of the last payment toast, or Null
    loading,                \* useMidtransIntegration: loading
    status,                 \* useMidtransIntegration: configured, per environment
    revealedServerKey,      \* useMidtransIntegration: Null or a key, per environment
    value,                  \* useMidtransIntegration: the form fields
    midtransCall            \* the invokeWithAuth call under way, or Null

pricingVars == << subscriptionYears, durationRows, durationsLoaded, pricing,
                  subscriptionPlans, settingsLoaded, packageAddOnsTotal,
                  subscriptionAddOnsTable, subscriptionAddOnItems,
                  subscriptionAddOns, addOnsLoaded >>

promoVars == << promo, statePromoCode, appliedPromo, timers, tt, inflight,
                nextReq, lastDone >>

adminVars == << plans, isEditingPlans, pricingPackageId,
               websitePlansPricingDraftByPackage >>

paymentVars == << paying, invoices, toastTitle >>

midtransVars == << loading, status, revealedServerKey, value, midtransCall >>

vars == << pricingVars, promoVars, adminVars, paymentVars, midtransVars >>

(***************************************************************************)
(* Input domains.                                                          *)
(***************************************************************************)
SeqsUpTo(S, n) == UNION { [1..k -> S] : k \in 0..n }

DurationRow(active, months, percent) ==
    [is_active |-> active, duration_months |-> months, discount_percent |-> percent]

DurationRowValues ==
    { DurationRow(a, mp[1], mp[2]) :
        a \in BOOLEAN, mp \in { <<12, 10>>, <<12, 50>>, <<0, 10>> } }

PlanRow(y, price) == [years |-> y, price_usd |-> price]

\* A legacy plan row as the settings hook hands it over, with its is_active
\* flag.
LegacyPlanRow(y, price, active) ==
    [years |-> y, price_usd |-> price, is_active |-> active]

PlanRowValues ==
    { PlanRow(1, Money(300, 0)), PlanRow(3, Money(500, 0)), PlanRow(3, Money(300, 0)) }

Pricing(domain, pkg) == [domainPriceUsd |-> domain, packagePriceUsd |-> pkg]

PricingValues ==
    { Pricing(d, p) : d \in { Null, Num(Money(10, 1)) }, p \in { Null, Num(Money(100, 0)) } }

YearsValues == { Null, Num(1), Num(3) }

AddOnRow(id, price, active) == [id |-> id, price_idr |-> price, is_active |-> active]

\* What the add-on hooks load: the package-scoped total and the table of
\* subscription add-ons.
AddOnTotals ==
    { << 0, << >> >>,
      << Money(30, 0), << AddOnRow("a", Num(Money(20, 0)), TRUE) >> >> }

\* state.subscriptionAddOns of an order with add-on "a" selected.
SelectedA == [id \in { "a" } |-> TRUE]

(***************************************************************************)
(* Billing: derived values (useMemo).                                      *)
(***************************************************************************)
\* .from("subscription_add_ons").eq("is_active", true)
FetchActive(table) == SelectSeq(table, LAMBDA a : a.is_active = TRUE)

\* Number(a.price_idr ?? 0)
PriceOf(a) == IF a.price_idr = Null THEN 0 ELSE Val(a.price_idr)

RECURSIVE SumOfSelected_Any(_, _, _)
SumOfSelected_Any(items, selected, n) ==
    IF n = 0 THEN 0
    ELSE SumOfSelected_Any(items, selected, n - 1) + PriceOf(items[n])

\* items.reduce over items[1..n]: the price of each item whose id is selected.
RECURSIVE SumOfSelected(_, _, _)
SumOfSelected(items, selected, n) ==
    IF n = 0 THEN 0
    ELSE LET sum == SumOfSelected(items, selected, n - 1)
             a == items[n]
         IN  IF ~(a.id \in DOMAIN selected /\ selected[a.id]) THEN sum
             ELSE sum + PriceOf(a)

\* useSubscriptionAddOns(...).total
subscriptionAddOnsTotal ==
    IF Len(subscriptionAddOnItems) = 0 THEN 0
    ELSE SumOfSelected(subscriptionAddOnItems, subscriptionAddOns,
                       Len(subscriptionAddOnItems))

addOnsTotal == packageAddOnsTotal + subscriptionAddOnsTotal

MapSet(m, k, v) == [x \in (DOMAIN m) \cup {k} |-> IF x = k THEN v ELSE m[x]]

RECURSIVE MapOfRows_AnyMonths(_, _)
MapOfRows_AnyMonths(rows, n) ==
    IF n = 0 THEN << >>
    ELSE LET m == MapOfRows_AnyMonths(rows, n - 1)
             r == rows[n]
         IN  IF r.is_active = FALSE THEN m
             ELSE MapSet(m, r.duration_months, r.discount_percent)

RECURSIVE MapOfRows_FirstWins(_, _)
MapOfRows_FirstWins(rows, n) ==
    IF n = 0 THEN << >>
    ELSE LET m == MapOfRows_FirstWins(rows, n - 1)
             r == rows[n]
         IN  IF r.is_active = FALSE THEN m
             ELSE IF r.duration_months > 0 /\ r.duration_months \notin DOMAIN m
                  THEN MapSet(m, r.duration_months, r.discount_percent)
                  ELSE m

\* The loop of the discountByMonths memo over rows[1..n], in table order.
RECURSIVE MapOfRows(_, _)
MapOfRows(rows, n) ==
    IF n = 0 THEN << >>
    ELSE LET m == MapOfRows(rows, n - 1)
             r == rows[n]
         IN  IF r.is_active = FALSE THEN m
             ELSE IF r.duration_months > 0
                  THEN MapSet(m, r.duration_months, r.discount_percent)
                  ELSE m

discountByMonths == MapOfRows(durationRows, Len(durationRows))

computeDiscountedTotal_NoClamp(monthlyPrice, months, discountPercent) ==
    (monthlyPrice * months * (100 - discountPercent)) \div 100

\* The monthly price times the months, less a linear percent discount.
computeDiscountedTotal(monthlyPrice, months, discountPercent) ==
    LET d == Min(100, Max(0, discountPercent))
    IN  (monthlyPrice * months * (100 - d)) \div 100

PlanHits ==
    { i \in 1..Len(subscriptionPlans) :
        subscriptionYears # Null /\ subscriptionPlans[i].years = Val(subscriptionYears) }

selectedPlan_Last ==
    IF PlanHits = {} THEN Null
    ELSE Num(subscriptionPlans[CHOOSE i \in PlanHits : \A j \in PlanHits : j <= i])

\* (subscriptionPlans || []).find(p => Number(p.years) === Number(years))
selectedPlan ==
    IF PlanHits = {} THEN Null
    ELSE Num(subscriptionPlans[CHOOSE i \in PlanHits : \A j \in PlanHits : i <= j])

\* Number(selectedPlan?.price_usd) when finite, else null.
planOverrideUsd ==
    IF selectedPlan = Null THEN Null ELSE Num(Val(selectedPlan).price_usd)

baseTotalPath_LegacyFirst ==
    IF subscriptionYears = Null THEN "unset"
    ELSE IF planOverrideUsd # Null THEN "legacy"
    ELSE IF DOMAIN discountByMonths # {} THEN "duration"
    ELSE "raw"

\* Which return statement of the baseTotalUsd memo is reached.
baseTotalPath ==
    IF subscriptionYears = Null THEN "unset"
    ELSE IF DOMAIN discountByMonths # {} THEN "duration"
    ELSE IF planOverrideUsd # Null THEN "legacy"
    ELSE "raw"

NullAsZero(x) == IF x = Null THEN 0 ELSE Val(x)

durationPathTotal_NullAsZero ==
    LET months == Val(subscriptionYears) * 12
        discountPercent ==
            IF months \in DOMAIN discountByMonths THEN discountByMonths[months] ELSE 0
        baseAnnual == NullAsZero(pricing.domainPriceUsd) + NullAsZero(pricing.packagePriceUsd)
        monthly == baseAnnual \div 12
    IN  Num(computeDiscountedTotal(monthly, months, discountPercent) + addOnsTotal)

durationPathTotal_AnyKey ==
    LET months == Val(subscriptionYears) * 12
        discountPercent ==
            IF months \in DOMAIN discountByMonths THEN discountByMonths[months]
            ELSE discountByMonths[CHOOSE k \in DOMAIN discountByMonths : TRUE]
        domain == pricing.domainPriceUsd
        pkg == pricing.packagePriceUsd
    IN  IF domain = Null \/ pkg = Null THEN Null
        ELSE LET baseAnnual == Val(domain) + Val(pkg)
                 monthly == baseAnnual \div 12
             IN  Num(computeDiscountedTotal(monthly, months, discountPercent)
                     + addOnsTotal)

\* The duration-discount branch of baseTotalUsd.
durationPathTotal ==
    LET months == Val(subscriptionYears) * 12
        discountPercent ==
            IF months \in DOMAIN discountByMonths THEN discountByMonths[months] ELSE 0
        domain == pricing.domainPriceUsd
        pkg == pricing.packagePriceUsd
    IN  IF domain = Null \/ pkg = Null THEN Null
        ELSE LET baseAnnual == Val(domain) + Val(pkg)
                 monthly == baseAnnual \div 12
             IN  Num(computeDiscountedTotal(monthly, months, discountPercent)
                     + addOnsTotal)

legacyPathTotal_Blend ==
    Num(Val(planOverrideUsd)
        + (NullAsZero(pricing.domainPriceUsd) + NullAsZero(pricing.packagePriceUsd))
          * Val(subscriptionYears)
        + addOnsTotal)

\* The legacy plan branch of baseTotalUsd.
legacyPathTotal == Num(Val(planOverrideUsd) + addOnsTotal)

rawPathTotal_OneYear ==
    LET domainUsd == pricing.domainPriceUsd
        pkgUsd == pricing.packagePriceUsd
    IN  IF domainUsd = Null \/ pkgUsd = Null THEN Null
        ELSE Num((Val(domainUsd) + Val(pkgUsd)) + addOnsTotal)

\* The raw base price branch of baseTotalUsd.
rawPathTotal ==
    LET domainUsd == pricing.domainPriceUsd
        pkgUsd == pricing.packagePriceUsd
    IN  IF domainUsd = Null \/ pkgUsd = Null THEN Null
        ELSE Num((Val(domainUsd) + Val(pkgUsd)) * Val(subscriptionYears) + addOnsTotal)

baseTotalUsd ==
    CASE baseTotalPath = "unset" -> Null
      [] baseTotalPath = "duration" -> durationPathTotal
      [] baseTotalPath = "legacy" -> legacyPathTotal
      [] baseTotalPath = "raw" -> rawPathTotal

(***************************************************************************)
(* Promo code: input text, validator responses, applied promo.             *)
(***************************************************************************)
\* Texts typed into the promo field: characters in a sequence.
PromoTexts == { << >>, << "A" >>, << " ", "A", " " >>, << "B" >> }

RECURSIVE TrimStart(_)
TrimStart(s) == IF s # << >> /\ Head(s) = " " THEN TrimStart(Tail(s)) ELSE s

RECURSIVE TrimEnd(_)
TrimEnd(s) ==
    IF s # << >> /\ s[Len(s)] = " " THEN TrimEnd(SubSeq(s, 1, Len(s) - 1)) ELSE s

\* String.prototype.trim
Trim(s) == TrimEnd(TrimStart(s))

\* A JS number that may be NaN.
Finite(n) == [nan |-> FALSE, v |-> n]

NaN == [nan |-> TRUE, v |-> 0]

NumberIsFinite(x) == ~x.nan

\* What validatePromoCode may resolve to: {ok: false} or {ok: true, discountUsd}.
ValidatorResponses ==
    { [ok |-> FALSE, discountUsd |-> Finite(0)] }
    \cup { [ok |-> TRUE, discountUsd |-> d] :
             d \in { Finite(Money(30, 0)), Finite(0 - Money(5, 0)), NaN } }

Timer(code, total) == [code |-> code, total |-> total]

\* A validatePromoCode(code, total) call that has not resolved yet; via is
\* the call site ("debounce": the timer callback, "apply": onApplyPromo).
Request(id, code, total, via) ==
    [id |-> id, code |-> code, total |-> total, via |-> via]

totalAfterPromoUsd_NoFloor ==
    IF baseTotalUsd = Null THEN Null
    ELSE LET d == IF appliedPromo = Null THEN Finite(0)
                  ELSE Val(appliedPromo).discountUsd
             discount == IF NumberIsFinite(d) /\ d.v > 0 THEN d.v ELSE 0
         IN  Num(Val(baseTotalUsd) - discount)

totalAfterPromoUsd ==
    IF baseTotalUsd = Null THEN Null
    ELSE LET d == IF appliedPromo = Null THEN Finite(0)
                  ELSE Val(appliedPromo).discountUsd
             discount == IF NumberIsFinite(d) /\ d.v > 0 THEN d.v ELSE 0
         IN  Num(Max(0, Val(baseTotalUsd) - discount))

totalAfterPromoIdr_NullAsZero ==
    Num(Max(0, MathRound(NullAsZero(totalAfterPromoUsd))))

\* totalAfterPromoUsd == null ? null : Math.max(0, Math.round(totalAfterPromoUsd))
totalAfterPromoIdr ==
    IF totalAfterPromoUsd = Null THEN Null
    ELSE Num(Max(0, MathRound(Val(totalAfterPromoUsd))))

effectCleanup_NoClear(pending, handle) == pending

\* The effect's cleanup: window.clearTimeout(tt).
effectCleanup(pending, handle) == pending \ handle

PromoEffect_EmptyCode ==
    LET code == Trim(promo')
        total == baseTotalUsd'
    IN  IF promo' = promo /\ total = baseTotalUsd
        THEN UNCHANGED << statePromoCode, appliedPromo, timers, tt >>
        ELSE /\ statePromoCode' = code
             /\ IF total = Null
                THEN /\ appliedPromo' = Null
                     /\ timers' = effectCleanup(timers, tt)
                     /\ tt' = {}
                ELSE /\ appliedPromo' = appliedPromo
                     /\ timers' = effectCleanup(timers, tt) \cup { Timer(code, Val(total)) }
                     /\ tt' = { Timer(code, Val(total)) }

\* The validation effect, run after a render in which promo or baseTotalUsd
\* changed (state.promoCode follows promo.trim() in the same pass).
PromoEffect ==
    LET code == Trim(promo')
        total == baseTotalUsd'
    IN  IF promo' = promo /\ total = baseTotalUsd
        THEN UNCHANGED << statePromoCode, appliedPromo, timers, tt >>
        ELSE /\ statePromoCode' = code
             /\ IF code = << >> \/ total = Null
                THEN /\ appliedPromo' = Null
                     /\ timers' = effectCleanup(timers, tt)
                     /\ tt' = {}
                ELSE /\ appliedPromo' = appliedPromo
                     /\ timers' = effectCleanup(timers, tt) \cup { Timer(code, Val(total)) }
                     /\ tt' = { Timer(code, Val(total)) }

onValidated_KeepOnInvalid(r, res) ==
    IF ~res.ok THEN appliedPromo
    ELSE Num([code |-> r.code, discountUsd |-> res.discountUsd,
              forCode |-> r.code, forTotal |-> r.total])

\* setAppliedPromo after validatePromoCode has resolved (both call sites).
\* forCode and forTotal record the call the promo was computed for.
onValidated(r, res) ==
    IF ~res.ok THEN Null
    ELSE Num([code |-> r.code, discountUsd |-> res.discountUsd,
              forCode |-> r.code, forTotal |-> r.total])

(***************************************************************************)
(* SuperAdminSubscriptions: the website plans pricing draft.               *)
(* A number read from an input or a setting is a record Finite(n) or NaN   *)
(* (anything Number.isFinite rejects).  Rupiah amounts of the draft count  *)
(* halves of a rupiah, Idr(whole, halves), so that 1,200,000 a year times  *)
(* a percent stays within TLC's integers; percents are whole numbers.      *)
(***************************************************************************)
Idr(whole, halves) == whole * 2 + halves

\* asNumber(v, fallback): Number(v) when finite, else the fallback.
asNumber(v, fallback) == IF NumberIsFinite(v) THEN v.v ELSE fallback

\* Math.floor on a rupiah amount.
MathFloor(u) == (u \div 2) * 2

\* Math.round on a rupiah amount: the nearest whole rupiah, halves upward.
MathRoundIdr(u) == ((u + 1) \div 2) * 2

\* Math.round(h / 100) for h counting hundredths of half a rupiah.
MathRoundIdrOfHundredths(h) == ((h + 100) \div 200) * 2

WebsitePlanKeys == { "website_only", "blog_social", "full_digital" }

MidtransEnv == { "sandbox", "production" }

\* The fields of MidtransFormValue.
MidtransFields ==
    { "merchantId", "sandboxClientKey", "sandboxServerKey",
      "productionClientKey", "productionServerKey" }

DurationDraft(discount, manual, locked) ==
    [discount_percent |-> discount, manual_price_per_year |-> manual,
     is_manual_locked |-> locked]

PricingDraft(mode, price, durations) ==
    [base_mode |-> mode, base_price |-> price, durations |-> durations]

defaultWebsitePlansDraft ==
    [k \in WebsitePlanKeys |->
        PricingDraft(IF k = "website_only" THEN "yearly" ELSE "monthly",
                     Finite(0), << >>)]

selectedPackageDraftKey ==
    IF pricingPackageId = "" THEN "__no_package_selected" ELSE pricingPackageId

\* prev[selectedPackageDraftKey] ?? defaultWebsitePlansDraft
DraftOfPackage(byPackage, packageKey) ==
    IF packageKey \in DOMAIN byPackage THEN byPackage[packageKey]
    ELSE defaultWebsitePlansDraft

websitePlansPricingDraft ==
    DraftOfPackage(websitePlansPricingDraftByPackage, selectedPackageDraftKey)

setWebsitePlansPricingDraft_AllPackages(next) ==
    websitePlansPricingDraftByPackage' =
        [k \in (DOMAIN websitePlansPricingDraftByPackage)
                  \cup { selectedPackageDraftKey } |-> next]

\* setWebsitePlansPricingDraft(updater), given updater(current).
setWebsitePlansPricingDraft(next) ==
    websitePlansPricingDraftByPackage' =
        MapSet(websitePlansPricingDraftByPackage, selectedPackageDraftKey, next)

AdminPlanRow(years, active, sort) ==
    [years |-> years, is_active |-> active, sort_order |-> sort]

\* The comparator of the sort: by sort_order, then by years.
PlanComesBefore(a, b) ==
    \/ a.sort_order < b.sort_order
    \/ a.sort_order = b.sort_order /\ a.years < b.years

RECURSIVE InsertPlan(_, _)
InsertPlan(sorted, p) ==
    IF sorted = << >> THEN << p >>
    ELSE IF PlanComesBefore(p, Head(sorted)) THEN << p >> \o sorted
    ELSE << Head(sorted) >> \o InsertPlan(Tail(sorted), p)

RECURSIVE SortPlans(_)
SortPlans(rows) ==
    IF rows = << >> THEN << >>
    ELSE InsertPlan(SortPlans(SubSeq(rows, 1, Len(rows) - 1)), rows[Len(rows)])

\* plans.filter(active, years > 0).sort(...).map(years)
YearsOfPlans(rows) ==
    LET kept == SelectSeq(rows, LAMBDA p : p.is_active # FALSE /\ p.years > 0)
        sorted == SortPlans(kept)
    IN  [i \in 1..Len(sorted) |-> sorted[i].years]

activeDurationYears == YearsOfPlans(plans)

Range(f) == { f[x] : x \in DOMAIN f }

EnsureDurations_ZeroManual(current, yearsSeq) ==
    [k \in DOMAIN current |->
        LET durations == current[k].durations
        IN  [current[k] EXCEPT !.durations =
                [y \in (DOMAIN durations) \cup Range(yearsSeq) |->
                    IF y \in DOMAIN durations THEN durations[y]
                    ELSE DurationDraft(Finite(0), Num(0), FALSE)]]]

\* The updater of the effect that gives every service line a bucket for
\* every active duration.
EnsureDurations(current, yearsSeq) ==
    [k \in DOMAIN current |->
        LET durations == current[k].durations
        IN  [current[k] EXCEPT !.durations =
                [y \in (DOMAIN durations) \cup Range(yearsSeq) |->
                    IF y \in DOMAIN durations THEN durations[y]
                    ELSE DurationDraft(Finite(0), Null, FALSE)]]]

computeAnnualBase_NoFloor(draft) ==
    LET base == Max(0, asNumber(draft.base_price, 0))
    IN  IF draft.base_mode = "monthly" THEN base * 12 ELSE base

\* Math.max(0, Math.floor(asNumber(base_price, 0))), times 12 when monthly.
computeAnnualBase(draft) ==
    LET base == Max(0, MathFloor(asNumber(draft.base_price, 0)))
    IN  IF draft.base_mode = "monthly" THEN base * 12 ELSE base

\* draft.durations?.[years]?.discount_percent, undefined read as NaN.
StoredDiscount(draft, years) ==
    IF years \in DOMAIN draft.durations
    THEN draft.durations[years].discount_percent
    ELSE NaN

computeAutoPricePerYear_NoClamp(draft, years) ==
    LET annualBase == computeAnnualBase(draft)
        discount == asNumber(StoredDiscount(draft, years), 0)
    IN  MathRoundIdrOfHundredths(annualBase * (100 - discount))

computeAutoPricePerYear_RawBase(draft, years) ==
    LET base == asNumber(draft.base_price, 0)
        discount == Min(100, Max(0, asNumber(StoredDiscount(draft, years), 0)))
    IN  MathRoundIdrOfHundredths(base * (100 - discount))

\* Math.round(annualBase * (1 - discount / 100)) with the discount clamped.
computeAutoPricePerYear(draft, years) ==
    LET annualBase == computeAnnualBase(draft)
        discount == Min(100, Max(0, asNumber(StoredDiscount(draft, years), 0)))
    IN  MathRoundIdrOfHundredths(annualBase * (100 - discount))

shownPricePerYear_IgnoreLock(draft, years) == computeAutoPricePerYear(draft, years)

\* d.is_manual_locked ? asNumber(d.manual_price_per_year ?? auto, auto) : auto
shownPricePerYear(draft, years) ==
    LET d == draft.durations[years]
        autoPricePerYear == computeAutoPricePerYear(draft, years)
    IN  IF d.is_manual_locked
        THEN IF d.manual_price_per_year = Null THEN autoPricePerYear
             ELSE Val(d.manual_price_per_year)
        ELSE autoPricePerYear

totalForDuration_OneYear(draft, years) == MathRoundIdr(shownPricePerYear(draft, years))

\* Math.round(shownPricePerYear * years)
totalForDuration(draft, years) == MathRoundIdr(shownPricePerYear(draft, years) * years)

\* The updater of the base price input.
BasePriceUpdate(prev, key, text) ==
    [prev EXCEPT ![key].base_price = Finite(asNumber(text, 0))]

\* The updater of the discount input.
DiscountUpdate(prev, key, years, text) ==
    [prev EXCEPT ![key].durations[years].discount_percent = Finite(asNumber(text, 0))]

\* The updater of the price per year input.
ManualPriceUpdate(prev, key, years, text) ==
    [prev EXCEPT ![key].durations[years].manual_price_per_year = Num(asNumber(text, 0))]

ManualLockUpdate_ResetsDiscount(prev, key, years, v) ==
    LET current == prev[key]
        currentDur == current.durations[years]
        nextManual ==
            IF v THEN IF currentDur.manual_price_per_year = Null
                      THEN Num(computeAutoPricePerYear(current, years))
                      ELSE currentDur.manual_price_per_year
            ELSE Null
    IN  [prev EXCEPT ![key].durations[years] = DurationDraft(Finite(0), nextManual, v)]

ManualLockUpdate_KeepsManual(prev, key, years, v) ==
    LET current == prev[key]
        currentDur == current.durations[years]
        nextManual ==
            IF currentDur.manual_price_per_year = Null
            THEN Num(computeAutoPricePerYear(current, years))
            ELSE currentDur.manual_price_per_year
    IN  [prev EXCEPT ![key].durations[years] =
            [currentDur EXCEPT !.is_manual_locked = v,
                               !.manual_price_per_year = nextManual]]

\* The updater of the Manual switch.
ManualLockUpdate(prev, key, years, v) ==
    LET current == prev[key]
        currentDur == current.durations[years]
        nextLocked == v
        nextManual ==
            IF nextLocked
            THEN IF currentDur.manual_price_per_year = Null
                 THEN Num(computeAutoPricePerYear(current, years))
                 ELSE currentDur.manual_price_per_year
            ELSE Null
    IN  [prev EXCEPT ![key].durations[years] =
            [currentDur EXCEPT !.is_manual_locked = nextLocked,
                               !.manual_price_per_year = nextManual]]

(***************************************************************************)
(* Actions.                                                                *)
(***************************************************************************)
InitWith(years, selections) ==
    /\ subscriptionYears \in years
    /\ durationRows = << >>
    /\ durationsLoaded = FALSE
    /\ pricing = Pricing(Null, Null)
    /\ subscriptionPlans = << >>
    /\ settingsLoaded = FALSE
    /\ packageAddOnsTotal = 0
    /\ subscriptionAddOnsTable = << >>
    /\ subscriptionAddOnItems = << >>
    /\ subscriptionAddOns \in selections
    /\ addOnsLoaded = FALSE
    /\ promo = << >>
    /\ statePromoCode = << >>
    /\ appliedPromo = Null
    /\ timers = {}
    /\ tt = {}
    /\ inflight = {}
    /\ nextReq = 0
    /\ lastDone = Null
    /\ plans = << >>
    /\ isEditingPlans = FALSE
    /\ pricingPackageId = ""
    /\ websitePlansPricingDraftByPackage = << >>
    /\ paying = FALSE
    /\ invoices = << >>
    /\ toastTitle = Null
    /\ loading = FALSE
    /\ status = [env \in MidtransEnv |-> FALSE]
    /\ revealedServerKey = [env \in MidtransEnv |-> Null]
    /\ value = [field \in MidtransFields |-> << >>]
    /\ midtransCall = Null

\* usePackageDurations: the rows arrive.
LoadDurationRows(rowSeqs) ==
    /\ ~durationsLoaded
    /\ \E rows \in rowSeqs : durationRows' = rows
    /\ durationsLoaded' = TRUE
    /\ UNCHANGED << subscriptionYears, pricing, subscriptionPlans, settingsLoaded,
                    packageAddOnsTotal, subscriptionAddOnsTable,
                    subscriptionAddOnItems, subscriptionAddOns, addOnsLoaded >>
    /\ promo' = promo
    /\ PromoEffect
    /\ UNCHANGED << inflight, nextReq, lastDone >>
    /\ UNCHANGED << adminVars, paymentVars, midtransVars >>

\* useOrderPublicSettings: base prices and legacy plans arrive.
LoadPublicSettings(prices, planSeqs) ==
    /\ ~settingsLoaded
    /\ \E p \in prices : pricing' = p
    /\ \E planRows \in planSeqs : subscriptionPlans' = planRows
    /\ settingsLoaded' = TRUE
    /\ UNCHANGED << subscriptionYears, durationRows, durationsLoaded,
                    packageAddOnsTotal, subscriptionAddOnsTable,
                    subscriptionAddOnItems, subscriptionAddOns, addOnsLoaded >>
    /\ promo' = promo
    /\ PromoEffect
    /\ UNCHANGED << inflight, nextReq, lastDone >>
    /\ UNCHANGED << adminVars, paymentVars, midtransVars >>

\* useOrderAddOns / useSubscriptionAddOns: the catalogs arrive.
LoadAddOns(totals) ==
    /\ ~addOnsLoaded
    /\ \E t \in totals :
          /\ packageAddOnsTotal' = t[1]
          /\ subscriptionAddOnsTable' = t[2]
          /\ subscriptionAddOnItems' = FetchActive(t[2])
    /\ addOnsLoaded' = TRUE
    /\ UNCHANGED << subscriptionYears, durationRows, durationsLoaded, pricing,
                    subscriptionPlans, settingsLoaded, subscriptionAddOns >>
    /\ promo' = promo
    /\ PromoEffect
    /\ UNCHANGED << inflight, nextReq, lastDone >>
    /\ UNCHANGED << adminVars, paymentVars, midtransVars >>

\* onPromoChange={setPromo}
OnPromoChange(texts) ==
    /\ \E text \in texts : promo' = text
    /\ UNCHANGED pricingVars
    /\ PromoEffect
    /\ UNCHANGED << inflight, nextReq, lastDone >>
    /\ UNCHANGED << adminVars, paymentVars, midtransVars >>

\* The setTimeout callback up to its await.
TimerFires ==
    /\ nextReq < MaxCalls
    /\ \E t \in timers :
          /\ inflight' = inflight \cup
                           { Request(nextReq + 1, t.code, t.total, "debounce") }
          /\ timers' = timers \ {t}
          /\ tt' = tt \ {t}
    /\ nextReq' = nextReq + 1
    /\ UNCHANGED << pricingVars, promo, statePromoCode, appliedPromo, lastDone >>
    /\ UNCHANGED << adminVars, paymentVars, midtransVars >>

\* onApplyPromo up to its await.
OnApplyPromo ==
    LET code == Trim(promo)
    IN  /\ statePromoCode' = code
        /\ IF code = << >> \/ baseTotalUsd = Null
           THEN /\ appliedPromo' = Null
                /\ UNCHANGED << inflight, nextReq >>
           ELSE /\ nextReq < MaxCalls
                /\ inflight' = inflight \cup
                          { Request(nextReq + 1, code, Val(baseTotalUsd), "apply") }
                /\ nextReq' = nextReq + 1
                /\ appliedPromo' = appliedPromo
        /\ UNCHANGED << pricingVars, promo, timers, tt, lastDone >>
        /\ UNCHANGED << adminVars, paymentVars, midtransVars >>

\* validatePromoCode resolves and the rest of the async function runs.
ValidationReturns(responses) ==
    /\ \E r \in inflight, res \in responses :
          /\ inflight' = inflight \ {r}
          /\ appliedPromo' = onValidated(r, res)
          /\ lastDone' = Num([ok |-> res.ok, hadPromo |-> appliedPromo # Null])
    /\ UNCHANGED << pricingVars, promo, statePromoCode, timers, tt, nextReq >>
    /\ UNCHANGED << adminVars, paymentVars, midtransVars >>

\* The argument of createXenditInvoice, as far as the amounts go.
Invoice(amount, years, code) ==
    [amount_idr |-> amount, subscription_years |-> years, promo_code |-> code]

\* startXenditInvoice up to its await: without a payable amount a toast and
\* nothing else, with one the createXenditInvoice call.
StartXenditInvoice ==
    /\ ~paying
    /\ IF totalAfterPromoIdr = Null
       THEN /\ toastTitle' = Num("order.totalNotAvailableTitle")
            /\ UNCHANGED << paying, invoices >>
       ELSE /\ Len(invoices) < MaxInvoices
            /\ paying' = TRUE
            /\ invoices' = Append(invoices,
                               Invoice(Val(totalAfterPromoIdr),
                                       NullAsZero(subscriptionYears),
                                       statePromoCode))
            /\ UNCHANGED toastTitle
    /\ UNCHANGED << pricingVars, promoVars, adminVars, midtransVars >>

\* createXenditInvoice returns (the browser is then sent to the invoice URL)
\* or throws (a toast); either way paying is reset.
XenditInvoiceReturns ==
    /\ paying
    /\ \E ok \in BOOLEAN :
          toastTitle' = IF ok THEN toastTitle ELSE Num("order.paymentFailedTitle")
    /\ paying' = FALSE
    /\ UNCHANGED << invoices, pricingVars, promoVars, adminVars, midtransVars >>

(***************************************************************************)
(* Actions of SuperAdminSubscriptions.                                     *)
(***************************************************************************)
billingVars == << pricingVars, promoVars, paymentVars >>

\* The render that follows a change of the plans or of the selected package
\* comes before the effect on [activeDurationYears, selectedPackageDraftKey]:
\* in it some service line of the selected draft has no bucket for an active
\* duration.
EffectPending ==
    \E key \in WebsitePlanKeys, years \in Range(activeDurationYears) :
        years \notin DOMAIN websitePlansPricingDraft[key].durations

\* The effect on [activeDurationYears, selectedPackageDraftKey], run after
\* that render and before the next event is handled.
EnsureDurationsEffect ==
    /\ EffectPending
    /\ setWebsitePlansPricingDraft(
           EnsureDurations(websitePlansPricingDraft, activeDurationYears))
    /\ UNCHANGED << plans, isEditingPlans, pricingPackageId, billingVars, midtransVars >>

\* fetchPlans resolves: setPlans.
FetchPlans(planSeqs) ==
    /\ plans = << >>
    /\ ~EffectPending
    /\ \E rows \in planSeqs : plans' = rows
    /\ UNCHANGED << isEditingPlans, pricingPackageId,
                    websitePlansPricingDraftByPackage, billingVars, midtransVars >>

\* fetchDomainPricing resolves: the default package, else the first one of
\* the list, becomes the selected package.
FetchDomainPricing(ids) ==
    /\ pricingPackageId = ""
    /\ ~EffectPending
    /\ \E id \in ids : pricingPackageId' = id
    /\ UNCHANGED << plans, isEditingPlans, websitePlansPricingDraftByPackage,
                    billingVars, midtransVars >>

\* onValueChange of the package Select: another package of the list.
OnPackageChange(ids) ==
    /\ pricingPackageId # ""
    /\ ~EffectPending
    /\ \E id \in ids \ { pricingPackageId } : pricingPackageId' = id
    /\ UNCHANGED << plans, isEditingPlans, websitePlansPricingDraftByPackage,
                    billingVars, midtransVars >>

\* The Edit / Cancel button.
ToggleEditPlans ==
    /\ ~EffectPending
    /\ isEditingPlans' = ~isEditingPlans
    /\ UNCHANGED << plans, pricingPackageId, websitePlansPricingDraftByPackage,
                    billingVars, midtransVars >>

\* A bucket that the panel renders for the service line.
Rendered(key, years) ==
    /\ years \in Range(activeDurationYears)
    /\ years \in DOMAIN websitePlansPricingDraft[key].durations

\* onChange of the base price input.
OnBasePriceChange(keys, texts) ==
    /\ isEditingPlans
    /\ ~EffectPending
    /\ \E key \in keys, text \in texts :
          setWebsitePlansPricingDraft(
              BasePriceUpdate(websitePlansPricingDraft, key, text))
    /\ UNCHANGED << plans, isEditingPlans, pricingPackageId, billingVars, midtransVars >>

\* onChange of the discount input of a bucket.
OnDiscountChange(buckets, texts) ==
    /\ isEditingPlans
    /\ ~EffectPending
    /\ \E b \in buckets, text \in texts :
          /\ Rendered(b[1], b[2])
          /\ setWebsitePlansPricingDraft(
                 DiscountUpdate(websitePlansPricingDraft, b[1], b[2], text))
    /\ UNCHANGED << plans, isEditingPlans, pricingPackageId, billingVars, midtransVars >>

\* onChange of the price per year input of a bucket (enabled when locked).
OnManualPriceChange(buckets, texts) ==
    /\ isEditingPlans
    /\ ~EffectPending
    /\ \E b \in buckets, text \in texts :
          /\ Rendered(b[1], b[2])
          /\ websitePlansPricingDraft[b[1]].durations[b[2]].is_manual_locked
          /\ setWebsitePlansPricingDraft(
                 ManualPriceUpdate(websitePlansPricingDraft, b[1], b[2], text))
    /\ UNCHANGED << plans, isEditingPlans, pricingPackageId, billingVars, midtransVars >>

\* onCheckedChange of the Manual switch of a bucket: it flips the lock.
OnManualLockChange(buckets) ==
    /\ isEditingPlans
    /\ ~EffectPending
    /\ \E b \in buckets :
          /\ Rendered(b[1], b[2])
          /\ setWebsitePlansPricingDraft(
                 ManualLockUpdate(websitePlansPricingDraft, b[1], b[2],
                     ~websitePlansPricingDraft[b[1]].durations[b[2]].is_manual_locked))
    /\ UNCHANGED << plans, isEditingPlans, pricingPackageId, billingVars, midtransVars >>

(***************************************************************************)
(* useMidtransIntegration: the settings function answers a call with data  *)
(* or with an error; the card disables its buttons and inputs while        *)
(* loading, so one call is under way at a time.                            *)
(***************************************************************************)
\* A call of invokeWithAuth(SETTINGS_FN, { action, env }).
MidtransRequest(action, env) == [action |-> action, env |-> env]

\* The characters [A-Za-z0-9_-] accepts, among those of the texts typed here.
MerchantIdChars == { "G", "1", "2", "-" }

\* /^[A-Za-z0-9_-]{3,64}$/.test(merchantId)
ValidMerchantId(text) ==
    /\ Len(text) >= 3 /\ Len(text) <= 64
    /\ \A i \in 1..Len(text) : text[i] \in MerchantIdChars

\* !(/\s/.test(key) || key.length < 8)
ValidKey(text) ==
    /\ Len(text) >= 8
    /\ \A i \in 1..Len(text) : text[i] # " "

clientKeyField(env) ==
    IF env = "sandbox" THEN "sandboxClientKey" ELSE "productionClientKey"

serverKeyField(env) ==
    IF env = "sandbox" THEN "sandboxServerKey" ELSE "productionServerKey"

\* The checks of onSave before its call: no throw.
SaveIsValid(env) ==
    /\ ValidMerchantId(Trim(value.merchantId))
    /\ ValidKey(Trim(value[clientKeyField(env)]))
    /\ ValidKey(Trim(value[serverKeyField(env)]))

setRevealedServerKey_OnlyThis(prev, env, key) ==
    [e \in MidtransEnv |-> IF e = env THEN key ELSE Null]

\* (prev) => ({ ...prev, [env]: key })
setRevealedServerKey(prev, env, key) == [prev EXCEPT ![env] = key]

\* String(data?.server_key ?? "") || null
RevealedKeyOf(server_key) ==
    IF server_key = Null \/ Val(server_key) = "" THEN Null ELSE server_key

\* fetchStatus after its await, on data: setStatus, setValue and
\* setRevealedServerKey({ sandbox: null, production: null }).
fetchStatusDone(res) ==
    /\ status' = res.configured
    /\ value' = [value EXCEPT !.merchantId =
                    IF res.merchant_id = Null THEN @ ELSE Val(res.merchant_id)]
    /\ revealedServerKey' = [env \in MidtransEnv |-> Null]

\* fetchStatus up to its await: on mount and from the refresh button.
FetchStatus ==
    /\ ~loading
    /\ loading' = TRUE
    /\ midtransCall' = Num(MidtransRequest("get", "all"))
    /\ UNCHANGED << status, revealedServerKey, value, billingVars, adminVars >>

\* The get call returns, to the mount/refresh fetch or to the fetch that
\* onSave and onClear await: data, or an error (a toast).
FetchStatusReturns(responses) ==
    /\ midtransCall = Num(MidtransRequest("get", "all"))
    /\ \E res \in responses :
          IF res.ok THEN fetchStatusDone(res)
          ELSE UNCHANGED << status, revealedServerKey, value >>
    /\ loading' = FALSE
    /\ midtransCall' = Null
    /\ UNCHANGED << billingVars, adminVars >>

\* onChange of a field of the form.
OnMidtransChange(patches) ==
    /\ ~loading
    /\ \E patch \in patches : value' = [value EXCEPT ![patch[1]] = patch[2]]
    /\ UNCHANGED << loading, status, revealedServerKey, midtransCall,
                    billingVars, adminVars >>

\* onSave(env) up to its await; with a field that fails a check the handler
\* throws before the call and ends with a toast.
OnSave ==
    /\ ~loading
    /\ \E env \in MidtransEnv :
          IF SaveIsValid(env)
          THEN /\ loading' = TRUE
               /\ midtransCall' = Num(MidtransRequest("set", env))
          ELSE UNCHANGED << loading, midtransCall >>
    /\ UNCHANGED << status, revealedServerKey, value, billingVars, adminVars >>

\* The set call returns: the key fields of the environment are emptied and
\* fetchStatus is called, or an error ends the handler.
SaveReturns ==
    /\ midtransCall # Null /\ Val(midtransCall).action = "set"
    /\ \E ok \in BOOLEAN :
          IF ok
          THEN /\ value' = [value EXCEPT
                               ![clientKeyField(Val(midtransCall).env)] = << >>,
                               ![serverKeyField(Val(midtransCall).env)] = << >>]
               /\ midtransCall' = Num(MidtransRequest("get", "all"))
               /\ loading' = TRUE
          ELSE /\ midtransCall' = Null
               /\ loading' = FALSE
               /\ value' = value
    /\ UNCHANGED << status, revealedServerKey, billingVars, adminVars >>

\* onClear(env) up to its await.
OnClear ==
    /\ ~loading
    /\ \E env \in MidtransEnv :
          /\ status[env]
          /\ midtransCall' = Num(MidtransRequest("clear", env))
    /\ loading' = TRUE
    /\ UNCHANGED << status, revealedServerKey, value, billingVars, adminVars >>

\* The clear call returns: fetchStatus is called, or an error ends the handler.
ClearReturns ==
    /\ midtransCall # Null /\ Val(midtransCall).action = "clear"
    /\ \E ok \in BOOLEAN :
          IF ok
          THEN /\ midtransCall' = Num(MidtransRequest("get", "all"))
               /\ loading' = TRUE
          ELSE /\ midtransCall' = Null
               /\ loading' = FALSE
    /\ UNCHANGED << status, revealedServerKey, value, billingVars, adminVars >>

\* onRevealServerKey(env) up to its await: the eye button of an environment
\* that shows no key.
OnRevealServerKey ==
    /\ ~loading
    /\ \E env \in MidtransEnv :
          /\ status[env]
          /\ revealedServerKey[env] = Null
          /\ midtransCall' = Num(MidtransRequest("reveal", env))
    /\ loading' = TRUE
    /\ UNCHANGED << status, revealedServerKey, value, billingVars, adminVars >>

\* The reveal call returns: data with a server key or without one, or an
\* error (a toast).
RevealReturns(keys) ==
    /\ midtransCall # Null /\ Val(midtransCall).action = "reveal"
    /\ \E ok \in BOOLEAN, server_key \in keys :
          IF ok
          THEN revealedServerKey' =
                   setRevealedServerKey(revealedServerKey, Val(midtransCall).env,
                                        RevealedKeyOf(server_key))
          ELSE UNCHANGED revealedServerKey
    /\ loading' = FALSE
    /\ midtransCall' = Null
    /\ UNCHANGED << status, value, billingVars, adminVars >>

\* onHideServerKey(env): the eye button of an environment that shows a key.
OnHideServerKey ==
    /\ ~loading
    /\ \E env \in MidtransEnv :
          /\ status[env]
          /\ revealedServerKey[env] # Null
          /\ revealedServerKey' = setRevealedServerKey(revealedServerKey, env, Null)
    /\ UNCHANGED << loading, status, value, midtransCall, billingVars, adminVars >>

(***************************************************************************)
(* Specifications.                                                         *)
(***************************************************************************)
\* The pricing chain over wide inputs; the promo field is left alone.
InitPricing == InitWith(YearsValues, { SelectedA })

NextPricing ==
    \/ LoadDurationRows(SeqsUpTo(DurationRowValues, MaxRows))
    \/ LoadPublicSettings(PricingValues, SeqsUpTo(PlanRowValues, MaxPlans))
    \/ LoadAddOns(AddOnTotals)

SpecPricing == InitPricing /\ [][NextPricing]_vars

\* The whole page over a few inputs: subtotal changes and the promo protocol.
PromoRowSeqs == { << DurationRow(TRUE, 12, 50) >> }

PromoPlanSeqs == { << PlanRow(1, Money(100, 0)) >>, << PlanRow(1, Money(10, 0)) >> }

PromoPricingValues == { Pricing(Null, Null) }

PromoAddOnTotals == { << Money(30, 0), << AddOnRow("a", Num(Money(20, 0)), TRUE) >> >> }

Init == InitWith({ Num(1) }, { SelectedA })

Next ==
    \/ LoadDurationRows(PromoRowSeqs)
    \/ LoadPublicSettings(PromoPricingValues, PromoPlanSeqs)
    \/ LoadAddOns(PromoAddOnTotals)
    \/ OnPromoChange(PromoTexts)
    \/ TimerFires
    \/ OnApplyPromo
    \/ ValidationReturns(ValidatorResponses)

Spec == Init /\ [][Next]_vars

\* The payment step of the page: the subtotal is missing (settings not yet
\* loaded, or duration rows without base prices) or comes from a legacy plan
\* of 100.5; a promo of 30 may be applied before the invoice is asked for.
PaymentPlanSeqs == { << PlanRow(1, Money(100, 1)) >> }

PaymentPromoTexts == { << "A" >> }

PaymentValidatorResponses == { [ok |-> TRUE, discountUsd |-> Finite(Money(30, 0))] }

InitPayment == InitWith({ Num(1) }, { SelectedA })

NextPayment ==
    \/ LoadDurationRows(PromoRowSeqs)
    \/ LoadPublicSettings(PromoPricingValues, PaymentPlanSeqs)
    \/ OnPromoChange(PaymentPromoTexts)
    \/ TimerFires
    \/ OnApplyPromo
    \/ ValidationReturns(PaymentValidatorResponses)
    \/ StartXenditInvoice
    \/ XenditInvoiceReturns

SpecPayment == InitPayment /\ [][NextPayment]_vars

\* The legacy plan path over plan rows that are active or not: no duration
\* rows, or rows of duration 0 only.
LegacyRowValues ==
    { LegacyPlanRow(yp[1], yp[2], a) :
        yp \in { << 1, Money(300, 0) >>, << 3, Money(500, 0) >> }, a \in BOOLEAN }

LegacyDurationSeqs == { << >>, << DurationRow(TRUE, 0, 10) >> }

InitLegacy == InitWith({ Num(1), Num(3) }, { SelectedA })

NextLegacy ==
    \/ LoadDurationRows(LegacyDurationSeqs)
    \/ LoadPublicSettings(PricingValues, SeqsUpTo(LegacyRowValues, MaxPlans))
    \/ LoadAddOns(AddOnTotals)

SpecLegacy == InitLegacy /\ [][NextLegacy]_vars

\* The duration-discount path over stored discounts inside and outside 0..100.
ClampRowValues ==
    { DurationRow(a, 12, p) : a \in BOOLEAN, p \in { 0 - 20, 0, 40, 100, 150 } }
        \cup { DurationRow(TRUE, 36, 150) }

ClampPricingValues ==
    { Pricing(Null, Num(Money(100, 0))),
      Pricing(Num(Money(10, 1)), Num(Money(100, 0))),
      Pricing(Num(0), Num(Money(1200, 0))) }

InitClamp == InitWith({ Num(1), Num(3) }, { SelectedA })

NextClamp ==
    \/ LoadDurationRows(SeqsUpTo(ClampRowValues, MaxRows))
    \/ LoadPublicSettings(ClampPricingValues, { << >> })
    \/ LoadAddOns(AddOnTotals)

SpecClamp == InitClamp /\ [][NextClamp]_vars

\* The admin panel: plans arrive, then the admin edits two service lines and
\* one bucket of each (1 year of the yearly line, 2 years of a monthly line);
\* the other buckets keep what the effect gave them.
AdminPlanSeqs ==
    { << AdminPlanRow(2, TRUE, 2), AdminPlanRow(1, TRUE, 1) >>,
      << AdminPlanRow(2, TRUE, 1), AdminPlanRow(1, FALSE, 2) >> }

EditedLines == { "website_only", "blog_social" }

EditedBuckets == { << "website_only", 1 >>, << "blog_social", 2 >> }

BasePriceTexts ==
    { Finite(Idr(105, 1)), Finite(0 - Idr(7, 0)), NaN, Finite(Idr(100000, 0)) }

DiscountTexts == { Finite(10), Finite(150), Finite(0 - 20), NaN }

ManualPriceTexts == { Finite(Idr(500, 0)), Finite(Idr(250, 1)) }

InitAdmin == InitWith({ Num(1) }, { SelectedA })

NextAdmin ==
    \/ FetchPlans(AdminPlanSeqs)
    \/ EnsureDurationsEffect
    \/ ToggleEditPlans
    \/ OnBasePriceChange(EditedLines, BasePriceTexts)
    \/ OnDiscountChange(EditedBuckets, DiscountTexts)
    \/ OnManualPriceChange(EditedBuckets, ManualPriceTexts)
    \/ OnManualLockChange(EditedBuckets)

SpecAdmin == InitAdmin /\ [][NextAdmin]_vars

\* The admin panel next to a checkout that was given the same inputs: the
\* admin types base prices and a discount, the checkout loads base prices,
\* duration rows and no add-ons.
EquivRowSeqs ==
    { << DurationRow(TRUE, 12, 10), DurationRow(TRUE, 24, 10) >>,
      << DurationRow(TRUE, 24, 0) >> }

EquivPricingValues ==
    { Pricing(Num(0), Num(Money(w, h))) :
        w \in { 105, 120, 1260 }, h \in { 0, 1 } }

EquivBasePriceTexts == { Finite(Idr(105, 0)), Finite(Idr(105, 1)), Finite(Idr(120, 0)) }

EquivBuckets == { << "website_only", 2 >> }

InitEquiv == InitWith({ Num(1), Num(2) }, { SelectedA })

NextEquiv ==
    \/ LoadDurationRows(EquivRowSeqs)
    \/ LoadPublicSettings(EquivPricingValues, { << >> })
    \/ LoadAddOns({ << 0, << >> >> })
    \/ FetchPlans(AdminPlanSeqs)
    \/ EnsureDurationsEffect
    \/ ToggleEditPlans
    \/ OnBasePriceChange(EditedLines, EquivBasePriceTexts)
    \/ OnDiscountChange(EquivBuckets, { Finite(10) })

SpecEquiv == InitEquiv /\ [][NextEquiv]_vars

\* The admin panel over packages: the package list and the plans arrive, the
\* admin switches between two packages and edits one service line and its
\* 2-year bucket under each; the typed prices per year include a negative
\* one and one with a fraction.
PackageIds == { "p1", "p2" }

PackagePlanSeqs == { << AdminPlanRow(2, TRUE, 1), AdminPlanRow(1, FALSE, 2) >> }

PackageLines == { "blog_social" }

PackageBuckets == { << "blog_social", 2 >> }

PackageBasePriceTexts == { Finite(Idr(105, 1)) }

PackageDiscountTexts == { Finite(10) }

PackageManualPriceTexts == { Finite(0 - Idr(5, 0)), Finite(Idr(250, 1)) }

InitPackages == InitWith({ Num(1) }, { SelectedA })

NextPackages ==
    \/ FetchDomainPricing(PackageIds)
    \/ OnPackageChange(PackageIds)
    \/ FetchPlans(PackagePlanSeqs)
    \/ EnsureDurationsEffect
    \/ ToggleEditPlans
    \/ OnBasePriceChange(PackageLines, PackageBasePriceTexts)
    \/ OnDiscountChange(PackageBuckets, PackageDiscountTexts)
    \/ OnManualPriceChange(PackageBuckets, PackageManualPriceTexts)
    \/ OnManualLockChange(PackageBuckets)

SpecPackages == InitPackages /\ [][NextPackages]_vars

\* The Midtrans card: the settings function reports each environment as
\* configured or not and a merchant id or none; the admin types a merchant
\* id and the keys of the sandbox, saves, resets, reveals and hides.
StatusResponses ==
    { [ok |-> FALSE, configured |-> [env \in MidtransEnv |-> FALSE],
       merchant_id |-> Null] }
    \cup { [ok |-> TRUE, configured |-> c, merchant_id |-> m] :
             c \in [MidtransEnv -> BOOLEAN],
             m \in { Null, Num(<< "G", "1", "2" >>) } }

ServerKeys == { Null, Num(""), Num("Mid-server-1") }

MidtransPatches ==
    { << "merchantId", << "G", "-", "1" >> >>,
      << "merchantId", << "G" >> >>,
      << "sandboxClientKey", << "c", "l", "i", "e", "n", "t", "-", "1" >> >>,
      << "sandboxServerKey", << "s", "e", "r", "v", "e", "r", "-", "1" >> >>,
      << "sandboxServerKey", << "s", " ", "1" >> >> }

InitMidtrans == InitWith({ Num(1) }, { SelectedA })

NextMidtrans ==
    \/ FetchStatus
    \/ FetchStatusReturns(StatusResponses)
    \/ OnMidtransChange(MidtransPatches)
    \/ OnSave
    \/ SaveReturns
    \/ OnClear
    \/ ClearReturns
    \/ OnRevealServerKey
    \/ RevealReturns(ServerKeys)
    \/ OnHideServerKey

SpecMidtrans == InitMidtrans /\ [][NextMidtrans]_vars

\* The add-on hooks over tables of up to MaxAddOns rows with distinct ids,
\* active or not, priced or not, and over selections that name ids of the
\* table and an id ("x") that no table has.
AddOnRowValues ==
    { AddOnRow(ip[1], ip[2], a) :
        ip \in { << "a", Num(Money(20, 0)) >>, << "b", Num(Money(30, 0)) >>,
                 << "b", Null >>, << "c", Num(Money(5, 0)) >> },
        a \in BOOLEAN }

AddOnTables ==
    { t \in SeqsUpTo(AddOnRowValues, MaxAddOns) :
        \A i, j \in 1..Len(t) : t[i].id = t[j].id => i = j }

SelectionValues ==
    UNION { [ids -> BOOLEAN] : ids \in SUBSET { "a", "b", "x" } }

InitAddOns == InitWith({ Num(1) }, SelectionValues)

NextAddOns ==
    \/ LoadAddOns({ 0, Money(30, 0) } \X AddOnTables)

SpecAddOns == InitAddOns /\ [][NextAddOns]_vars

(***************************************************************************)
(* Properties of the subtotal resolution chain (SpecPricing).              *)
(* The expected amounts below are written from the inputs alone and not   *)
(* through the operators that model the memo.                              *)
(***************************************************************************)
YearsChosen == subscriptionYears # Null

RequestedMonths == Val(subscriptionYears) * 12

RowIndexes == 1..Len(durationRows)

\* Rows of the table for the requested duration, active or not.
RowsForDuration ==
    { i \in RowIndexes : durationRows[i].duration_months = RequestedMonths }

ActiveRowsForDuration == { i \in RowsForDuration : durationRows[i].is_active }

\* Some row of the table has a positive duration.
HasPositiveRow == \E i \in RowIndexes : durationRows[i].duration_months > 0

HasActivePositiveRow ==
    \E i \in RowIndexes :
        durationRows[i].is_active /\ durationRows[i].duration_months > 0

LastIndex(S) == CHOOSE i \in S : \A j \in S : j <= i

FirstIndex(S) == CHOOSE i \in S : \A j \in S : i <= j

MatchingPlans ==
    { i \in 1..Len(subscriptionPlans) :
        subscriptionPlans[i].years = Val(subscriptionYears) }

BothBasePrices == pricing.domainPriceUsd # Null /\ pricing.packagePriceUsd # Null

BaseSum == Val(pricing.domainPriceUsd) + Val(pricing.packagePriceUsd)

\* The discounted total of the monthly price (domain + package) / 12 over the
\* requested months at the given percent, plus add-ons; or unavailable.
DurationAmount(percent) ==
    IF BothBasePrices
    THEN Num(computeDiscountedTotal(BaseSum \div 12, RequestedMonths, percent)
             + addOnsTotal)
    ELSE Null

LegacyAmount == Num(subscriptionPlans[FirstIndex(MatchingPlans)].price_usd + addOnsTotal)

RawAmount ==
    IF BothBasePrices THEN Num(BaseSum * Val(subscriptionYears) + addOnsTotal) ELSE Null

\* The discount of the requested duration: the last active row's, else 0.
ExpectedPercent ==
    IF ActiveRowsForDuration = {} THEN 0
    ELSE durationRows[LastIndex(ActiveRowsForDuration)].discount_percent

\* C1 as stated: whenever the table has a row for the requested duration
\* (active or not), the result is the duration-discount amount computed from
\* the base prices, a discount of such a row and the add-ons total, whatever
\* the legacy plan table holds.
C1_AnyRowDecides ==
    (YearsChosen /\ RowsForDuration # {})
        => \E i \in RowsForDuration :
              baseTotalUsd = DurationAmount(durationRows[i].discount_percent)

\* C1 amended: whenever the table has an ACTIVE row for the requested
\* duration, the duration-discount return is the one reached and the result is
\* the duration-discount amount of the base prices, that row's discount (the
\* last such row's) and the add-ons total; the legacy plans and the raw-base
\* formula have no part in it.
C1_ActiveRowDecides ==
    (YearsChosen /\ ActiveRowsForDuration # {})
        => /\ baseTotalPath = "duration"
           /\ baseTotalUsd = DurationAmount(ExpectedPercent)

\* C1 witness: an active row for the duration, a matching legacy plan and
\* both base prices, with the three candidate amounts all different.
C1_Witness ==
    /\ YearsChosen /\ ActiveRowsForDuration # {} /\ MatchingPlans # {}
    /\ BothBasePrices
    /\ baseTotalUsd = DurationAmount(ExpectedPercent)
    /\ baseTotalUsd # LegacyAmount
    /\ baseTotalUsd # RawAmount

\* C2 as stated: with a duration chosen, the duration-discount path is taken
\* whenever the table has a row with a positive duration, whatever its other
\* fields, and the legacy and raw paths only when it has none.
C2_AnyPositiveRow ==
    YearsChosen =>
        /\ HasPositiveRow => baseTotalPath = "duration"
        /\ baseTotalPath \in { "legacy", "raw" } => ~HasPositiveRow

\* C2 amended: with a duration chosen, the duration-discount path is taken
\* exactly when the table has a row with a positive duration that is not
\* inactive; the legacy and raw paths are reached exactly when it has none.
C2_ActivePositiveRow ==
    YearsChosen =>
        /\ HasActivePositiveRow <=> baseTotalPath = "duration"
        /\ ~HasActivePositiveRow <=> baseTotalPath \in { "legacy", "raw" }

\* C2 witness: an active positive row next to a row of duration 0, no row
\* for the requested duration, a matching legacy plan: the duration path.
C2_Witness ==
    /\ YearsChosen /\ HasActivePositiveRow /\ RowsForDuration = {}
    /\ \E i \in RowIndexes : durationRows[i].duration_months = 0
    /\ MatchingPlans # {}
    /\ baseTotalPath = "duration"

\* The amount of the one path that precedence selects.
ChosenAmount ==
    IF HasActivePositiveRow THEN DurationAmount(ExpectedPercent)
    ELSE IF MatchingPlans # {} THEN LegacyAmount
    ELSE RawAmount

\* C3: the subtotal is unavailable or is exactly the amount of the one path
\* selected by precedence (duration-discount, else legacy plan, else raw
\* base); it is never a sum or a mixture of two paths' amounts.
C3_ExactlyOnePath ==
    \/ baseTotalUsd = Null
    \/ YearsChosen /\ baseTotalUsd = ChosenAmount

\* C3 witness: all three sources are populated and give three different
\* amounts; the result is one of them.
C3_Witness ==
    /\ YearsChosen /\ MatchingPlans # {} /\ BothBasePrices /\ addOnsTotal > 0
    /\ DurationAmount(ExpectedPercent) # LegacyAmount
    /\ LegacyAmount # RawAmount
    /\ RawAmount # DurationAmount(ExpectedPercent)
    /\ baseTotalUsd \in { DurationAmount(ExpectedPercent), LegacyAmount, RawAmount }

\* C4: in the duration-discount path and in the raw-base path, a missing
\* domain or package base price makes the result unavailable (null), never 0
\* and never the add-ons total alone.
C4_UnavailableNotZero ==
    ( /\ YearsChosen
      /\ HasActivePositiveRow \/ MatchingPlans = {}
      /\ ~BothBasePrices )
        => baseTotalUsd = Null

\* C4 witness: the duration path with the domain price missing, the package
\* price present and add-ons selected.
C4_Witness ==
    /\ YearsChosen /\ HasActivePositiveRow
    /\ pricing.domainPriceUsd = Null /\ pricing.packagePriceUsd # Null
    /\ addOnsTotal > 0
    /\ baseTotalUsd = Null

\* C5: with no duration-discount row in force and a legacy plan whose years
\* equal the requested duration, the result is that plan's price plus the
\* add-ons total, whatever the base prices are (also when they are null).
C5_LegacyPlan ==
    (YearsChosen /\ ~HasActivePositiveRow /\ MatchingPlans # {})
        => baseTotalUsd = LegacyAmount

\* C5 witness: empty discount table, plan {years 3, price 500}, add-ons 50,
\* no base prices: 550.
C5_Witness ==
    /\ durationsLoaded /\ durationRows = << >>
    /\ subscriptionYears = Num(3) /\ MatchingPlans # {}
    /\ subscriptionPlans[FirstIndex(MatchingPlans)].price_usd = Money(500, 0)
    /\ addOnsTotal = Money(50, 0)
    /\ pricing = Pricing(Null, Null)
    /\ baseTotalUsd = Num(Money(550, 0))

\* C6: with no duration-discount row in force, no legacy plan for the
\* requested duration and both base prices known, the result is
\* (domainBase + packageBase) * years + addOnsTotal.
C6_RawBase ==
    (YearsChosen /\ ~HasActivePositiveRow /\ MatchingPlans = {} /\ BothBasePrices)
        => baseTotalUsd = Num(BaseSum * Val(subscriptionYears) + addOnsTotal)

\* C6 witness: three years, plans for other durations only, add-ons chosen.
C6_Witness ==
    /\ subscriptionYears = Num(3) /\ durationRows = << >>
    /\ subscriptionPlans # << >> /\ MatchingPlans = {}
    /\ BothBasePrices /\ addOnsTotal > 0
    /\ baseTotalUsd = Num(3 * Money(110, 1) + Money(50, 0))

(***************************************************************************)
(* Properties of the promo discount and of its validation (Spec).          *)
(***************************************************************************)
\* state.promoCode follows the trimmed input text.
PromoCodeInSync == statePromoCode = Trim(promo)

AppliedDiscount ==
    IF appliedPromo = Null THEN Finite(0) ELSE Val(appliedPromo).discountUsd

\* C7: with a subtotal available, the total after promo is max(0, subtotal -
\* discount): never negative, 0 when the discount exceeds the subtotal (30 on
\* 100 gives 70, 30 on 10 gives 0); a discount that is negative or not finite
\* counts as 0, so the total never exceeds the subtotal; the payable amount is
\* its rounding and is not negative either.
C7_PromoClamp ==
    baseTotalUsd # Null =>
        LET sub == Val(baseTotalUsd)
            d == AppliedDiscount
            total == Val(totalAfterPromoUsd)
        IN  /\ totalAfterPromoUsd # Null
            /\ total >= 0 /\ total <= sub
            /\ (d.nan \/ d.v < 0) => total = sub
            /\ (~d.nan /\ d.v >= 0) => total = (IF d.v > sub THEN 0 ELSE sub - d.v)
            /\ (~d.nan /\ d.v = Money(30, 0) /\ sub = Money(100, 0)) => total = Money(70, 0)
            /\ (~d.nan /\ d.v = Money(30, 0) /\ sub = Money(10, 0)) => total = 0
            /\ totalAfterPromoIdr = Num(MathRound(total))
            /\ Val(totalAfterPromoIdr) >= 0

\* C7 witness: a promo of 30 applied while the subtotal is 10: total 0.
C7_Witness ==
    /\ baseTotalUsd = Num(Money(10, 0))
    /\ appliedPromo # Null /\ AppliedDiscount = Finite(Money(30, 0))
    /\ totalAfterPromoUsd = Num(0)

\* A validation has just returned: a call left the set of calls in flight.
ValidationReturned == inflight' # inflight /\ inflight' \subseteq inflight

\* C8: whenever a validation (started by the timer or by the apply button)
\* returns ok:false, the applied promo becomes null and the total after promo
\* equals the subtotal, also when a promo was applied before.
C8_InvalidClears ==
    [][ (ValidationReturned /\ ~Val(lastDone').ok)
            => (appliedPromo' = Null /\ totalAfterPromoUsd' = baseTotalUsd') ]_vars

\* C8 witness: the last validation returned ok:false while a promo was
\* applied; no promo is applied now and the total is the subtotal.
C8_Witness ==
    /\ lastDone = Num([ok |-> FALSE, hadPromo |-> TRUE])
    /\ appliedPromo = Null
    /\ baseTotalUsd # Null /\ totalAfterPromoUsd = baseTotalUsd

\* C9 as stated: results of stale validations are ignored, so once no timer is
\* pending and no validation is in flight, an applied promo is the result
\* computed for the current (trimmed code, subtotal) pair. Stated here for the
\* states in which a subtotal is available.
C9_StaleIgnored ==
    (timers = {} /\ inflight = {} /\ appliedPromo # Null /\ baseTotalUsd # Null)
        => /\ Val(appliedPromo).forCode = Trim(promo)
           /\ baseTotalUsd = Num(Val(appliedPromo).forTotal)

\* At most one timer is pending, and it holds the latest pair.
TimerIsLatest ==
    /\ Cardinality(timers) <= 1
    /\ \A t \in timers : t.code = Trim(promo) /\ Num(t.total) = baseTotalUsd

NewCalls == inflight' \ inflight

\* A debounced call is made by the one pending timer, with the latest pair,
\* and leaves no timer behind.
DebouncedCallStep ==
    (\E r \in NewCalls : r.via = "debounce")
        => /\ timers # {} /\ timers' = {}
           /\ nextReq' = nextReq + 1
           /\ \A r \in NewCalls : r.code = Trim(promo) /\ Num(r.total) = baseTotalUsd

\* A change of the text or of the subtotal calls nothing; it drops the pending
\* timer and leaves exactly the timer of the new pair (none without a code or
\* a subtotal).
RescheduleStep ==
    (promo' # promo \/ baseTotalUsd' # baseTotalUsd)
        => /\ nextReq' = nextReq /\ inflight' = inflight
           /\ timers' = IF Trim(promo') = << >> \/ baseTotalUsd' = Null THEN {}
                        ELSE { Timer(Trim(promo'), Val(baseTotalUsd')) }

\* The apply button, with a code and a subtotal, calls the validator in the
\* same step and does not touch the timer.
ApplyStep ==
    (OnApplyPromo /\ Trim(promo) # << >> /\ baseTotalUsd # Null)
        => /\ \E r \in NewCalls :
                r.via = "apply" /\ r.code = Trim(promo) /\ Num(r.total) = baseTotalUsd
           /\ timers' = timers

\* C10: every change of the text or of the subtotal cancels the pending timer
\* and schedules one for the new pair, so at most one timer is pending and a
\* burst of changes leads to at most one debounced call, made with the latest
\* trimmed code and subtotal; an explicit apply calls at once.
C10_Debounce ==
    /\ []TimerIsLatest
    /\ [][DebouncedCallStep /\ RescheduleStep /\ ApplyStep]_vars

\* C10 witness: the timer of the current code has fired and is gone, and its
\* debounced call and an explicit apply call are both in flight.
C10_Witness ==
    /\ Trim(promo) = << "B" >> /\ timers = {}
    /\ \E r \in inflight : r.via = "debounce" /\ r.code = << "B" >>
    /\ \E r \in inflight : r.via = "apply"

(***************************************************************************)
(* Properties of the discount clamp at checkout (SpecClamp).               *)
(***************************************************************************)
NearestBoundary(p) == IF p < 0 THEN 0 ELSE IF p > 100 THEN 100 ELSE p

DraftBuckets ==
    UNION { { << k, y >> : y \in DOMAIN websitePlansPricingDraft[k].durations } :
            k \in WebsitePlanKeys }

LineOf(b) == websitePlansPricingDraft[b[1]]

BucketOf(b) == LineOf(b).durations[b[2]]

\* The percent the claims expect to be used for a stored or typed value.
BoundaryOf(v) == IF NumberIsFinite(v) THEN NearestBoundary(v.v) ELSE 0

WithDiscount(line, years, v) ==
    [line EXCEPT !.durations[years].discount_percent = v]

\* C12: computeAutoPricePerYear never rejects a discount percent outside
\* 0..100 or a non-numeric one; it returns the value it returns for the
\* nearest boundary (0 for values below 0 and for non-numeric ones, 100 for
\* values above 100): the whole annual base at 0, nothing at 100.
C12_AutoPriceClamp ==
    \A b \in DraftBuckets :
        \A v \in { BucketOf(b).discount_percent } \cup DiscountTexts :
            LET asGiven == computeAutoPricePerYear(WithDiscount(LineOf(b), b[2], v), b[2])
                atBoundary ==
                    computeAutoPricePerYear(
                        WithDiscount(LineOf(b), b[2], Finite(BoundaryOf(v))), b[2])
                annualBase == computeAnnualBase(LineOf(b))
            IN  /\ asGiven = atBoundary
                /\ asGiven >= 0 /\ asGiven <= annualBase
                /\ BoundaryOf(v) = 0 => asGiven = annualBase
                /\ BoundaryOf(v) = 100 => asGiven = 0

\* C12 witness: a bucket stores 150 percent over a positive annual base and
\* its automatic price per year is 0.
C12_Witness ==
    \E b \in DraftBuckets :
        /\ BucketOf(b).discount_percent = Finite(150)
        /\ computeAnnualBase(LineOf(b)) > 0
        /\ computeAutoPricePerYear(LineOf(b), b[2]) = 0

\* The whole rupiah of a non-negative amount.
WholeRupiah(u) == u - (u % 2)

ExpectedAnnualBase(mode, v) ==
    IF ~NumberIsFinite(v) \/ v.v < 0 THEN 0
    ELSE IF mode = "monthly" THEN 12 * WholeRupiah(v.v) ELSE WholeRupiah(v.v)

\* C13: computeAnnualBase returns floor(base price) * 12 for a monthly
\* service line and floor(base price) for a yearly one; for a negative or
\* non-numeric base price it returns 0.  Checked for the stored base price of
\* every service line and for every value the input can hand over.
C13_AnnualBase ==
    \A k \in WebsitePlanKeys :
        \A v \in { websitePlansPricingDraft[k].base_price } \cup BasePriceTexts :
            \A mode \in { websitePlansPricingDraft[k].base_mode, "monthly", "yearly" } :
                computeAnnualBase(PricingDraft(mode, v, << >>)) = ExpectedAnnualBase(mode, v)

\* C13 witness: the monthly line Blog + Social Media holds the fractional
\* base price 105.5 and its annual base is 1260.
C13_Witness ==
    /\ websitePlansPricingDraft["blog_social"].base_price = Finite(Idr(105, 1))
    /\ websitePlansPricingDraft["blog_social"].base_mode = "monthly"
    /\ computeAnnualBase(websitePlansPricingDraft["blog_social"]) = Idr(1260, 0)

UnlockedBuckets == { b \in DraftBuckets : ~BucketOf(b).is_manual_locked }

\* C14: for a bucket that is not manually locked the price per year is
\* round(annualBase * (1 - clampedDiscount / 100)), the whole rupiah nearest
\* to that product with halves upward, and the total is that price times the
\* years; 1,200,000 a year at 10 percent over 2 years gives 1,080,000 a year
\* and 2,160,000 in total.
C14_UnlockedTotal ==
    \A b \in UnlockedBuckets :
        LET annualBase == computeAnnualBase(LineOf(b))
            clamped == BoundaryOf(BucketOf(b).discount_percent)
            pricePerYear == shownPricePerYear(LineOf(b), b[2])
            total == totalForDuration(LineOf(b), b[2])
            off == 100 * pricePerYear - annualBase * (100 - clamped)
        IN  /\ pricePerYear % 2 = 0
            /\ off > 0 - 100 /\ off <= 100
            /\ total = pricePerYear * b[2]
            /\ (annualBase = Idr(1200000, 0) /\ clamped = 10 /\ b[2] = 2)
                  => /\ pricePerYear = Idr(1080000, 0)
                     /\ total = Idr(2160000, 0)

\* C14 witness: an unlocked bucket of 2 years at 10 percent over an annual
\* base of 1,200,000 shows 2,160,000.
C14_Witness ==
    \E b \in UnlockedBuckets :
        /\ computeAnnualBase(LineOf(b)) = Idr(1200000, 0)
        /\ BucketOf(b).discount_percent = Finite(10)
        /\ b[2] = 2
        /\ totalForDuration(LineOf(b), b[2]) = Idr(2160000, 0)

(***************************************************************************)
(* The admin draft calculator against the checkout (SpecEquiv).            *)
(***************************************************************************)
\* A rupiah amount of the draft in the checkout's counting.
InCheckoutUnits(u) == u * (Unit \div 2)

\* The annual base price as the admin typed it: the base price, times 12 for
\* a monthly line.
TypedAnnualBase(line) ==
    IF line.base_mode = "monthly" THEN line.base_price.v * 12 ELSE line.base_price.v

\* The checkout was given the inputs of bucket b: the same annual base as the
\* sum of its base prices, the same duration, the same discount within
\* 0..100 for it, no add-ons; the bucket is not locked.
EquivalentInputs(b) ==
    /\ ~BucketOf(b).is_manual_locked
    /\ TypedAnnualBase(LineOf(b)) >= 0
    /\ BucketOf(b).discount_percent.v \in 0..100
    /\ subscriptionYears = Num(b[2])
    /\ BothBasePrices
    /\ BaseSum = InCheckoutUnits(TypedAnnualBase(LineOf(b)))
    /\ addOnsLoaded /\ addOnsTotal = 0
    /\ ActiveRowsForDuration # {}
    /\ ExpectedPercent = BucketOf(b).discount_percent.v

\* C15: for equivalent inputs (no lock, no add-ons) the admin draft's
\* totalForDuration equals the subtotal of the checkout's duration-discount
\* path, for every base price (fractional ones and ones not divisible by 12
\* included), every discount in 0..100 and every duration.
C15_SameAsCheckout ==
    \A b \in DraftBuckets :
        EquivalentInputs(b)
            => baseTotalUsd = Num(InCheckoutUnits(totalForDuration(LineOf(b), b[2])))

LockedBuckets == { b \in DraftBuckets : BucketOf(b).is_manual_locked }

\* The same bucket one step later.
LineOfNext(b) == websitePlansPricingDraft'[b[1]]

\* C16: for a manually locked bucket the effective price per year is the
\* stored manual amount when there is one and the current automatic price
\* otherwise, and the total is round(effective price * years); while the
\* bucket stays locked with the same manual amount, a change of the discount
\* or of the base price changes neither the effective price nor the total.
C16_LockedPrice ==
    /\ [](\A b \in LockedBuckets :
            LET manual == BucketOf(b).manual_price_per_year
                effective == shownPricePerYear(LineOf(b), b[2])
                total == totalForDuration(LineOf(b), b[2])
                unset == [LineOf(b) EXCEPT !.durations[b[2]].manual_price_per_year = Null]
            IN  /\ manual # Null => effective = Val(manual)
                /\ shownPricePerYear(unset, b[2]) = computeAutoPricePerYear(LineOf(b), b[2])
                /\ total % 2 = 0
                /\ total - effective * b[2] \in { 0, 1 })
    /\ [][\A b \in LockedBuckets :
            ( /\ BucketOf(b).manual_price_per_year # Null
              /\ b \in LockedBuckets'
              /\ LineOfNext(b).durations[b[2]].manual_price_per_year
                    = BucketOf(b).manual_price_per_year )
                => /\ shownPricePerYear(LineOfNext(b), b[2])
                        = shownPricePerYear(LineOf(b), b[2])
                   /\ totalForDuration(LineOfNext(b), b[2])
                        = totalForDuration(LineOf(b), b[2])]_vars

\* C16 witness: a locked bucket whose manual amount has a half rupiah, set
\* before the discount was changed: the automatic price has moved away and
\* the effective price is still the manual amount, the total rounded up.
C16_Witness ==
    \E b \in LockedBuckets :
        /\ BucketOf(b).manual_price_per_year = Num(Idr(250, 1))
        /\ BucketOf(b).discount_percent = Finite(10)
        /\ computeAutoPricePerYear(LineOf(b), b[2]) = Idr(90000, 0)
        /\ shownPricePerYear(LineOf(b), b[2]) = Idr(250, 1)
        /\ totalForDuration(LineOf(b), b[2]) = Idr(251, 0)

BucketOfNext(b) == LineOfNext(b).durations[b[2]]

\* The buckets whose lock differs between this state and the next.
ToggledBuckets ==
    { b \in DraftBuckets :
        /\ b \in DraftBuckets'
        /\ BucketOfNext(b).is_manual_locked # BucketOf(b).is_manual_locked }

\* C17: switching the manual lock on for a bucket with no manual value
\* stores the automatic price computed from the draft at that moment as the
\* manual value and sets the lock; switching it off sets the manual value to
\* null and clears the lock; the discount percent of the bucket, every other
\* bucket, the base price and mode of every service line, the drafts of the
\* other packages, the plans and the edit mode stay as they were.
C17_LockToggleFrame ==
    [][\A b \in ToggledBuckets :
          LET expected ==
                  IF BucketOf(b).is_manual_locked
                  THEN DurationDraft(BucketOf(b).discount_percent, Null, FALSE)
                  ELSE DurationDraft(BucketOf(b).discount_percent,
                                     Num(computeAutoPricePerYear(LineOf(b), b[2])),
                                     TRUE)
          IN  /\ ~BucketOf(b).is_manual_locked => BucketOf(b).manual_price_per_year = Null
              /\ BucketOfNext(b) = expected
              /\ \A o \in DraftBuckets \ { b } :
                    o \in DraftBuckets' /\ BucketOfNext(o) = BucketOf(o)
              /\ DraftBuckets' = DraftBuckets
              /\ \A k \in WebsitePlanKeys :
                    /\ websitePlansPricingDraft'[k].base_price
                         = websitePlansPricingDraft[k].base_price
                    /\ websitePlansPricingDraft'[k].base_mode
                         = websitePlansPricingDraft[k].base_mode
              /\ \A pk \in DOMAIN websitePlansPricingDraftByPackage :
                    pk # selectedPackageDraftKey
                       => websitePlansPricingDraftByPackage'[pk]
                            = websitePlansPricingDraftByPackage[pk]
              /\ UNCHANGED << plans, isEditingPlans, pricingPackageId >>]_vars

\* C17 witness: a bucket locked at 10 percent holds the automatic price of
\* that moment, 1,080,000, while a bucket of another service line keeps its
\* own discount of 150.
C17_Witness ==
    \E b \in LockedBuckets, o \in UnlockedBuckets :
        /\ o[1] # b[1]
        /\ BucketOf(o).discount_percent = Finite(150)
        /\ BucketOf(b).discount_percent = Finite(10)
        /\ BucketOf(b).manual_price_per_year = Num(Idr(1080000, 0))
        /\ computeAutoPricePerYear(LineOf(b), b[2]) = Idr(1080000, 0)

\* The buckets the panel shows.
RenderedBuckets == { b \in DraftBuckets : Rendered(b[1], b[2]) }

\* The drafts after typing nothing or a manual price into bucket b.
AfterTyping(draft, b) ==
    { draft } \cup { ManualPriceUpdate(draft, b[1], b[2], t) : t \in ManualPriceTexts }

\* The drafts after changing nothing, the discount of bucket b or the base
\* price of its service line.
AfterChange(draft, b) ==
    { draft }
      \cup { DiscountUpdate(draft, b[1], b[2], t) : t \in { Finite(150), NaN } }
      \cup { BasePriceUpdate(draft, b[1], t) : t \in { Finite(Idr(105, 1)) } }

ManualOf(draft, b) == draft[b[1]].durations[b[2]].manual_price_per_year

\* C18: lock, unlock, lock on one bucket: the second captured manual value
\* is the first captured value if the automatic price did not change in
\* between and the new automatic price if it did; a manual value typed
\* before unlocking is not restored.
C18_RelockRoundTrip ==
    \A b \in UnlockedBuckets \cap RenderedBuckets :
        LET start == websitePlansPricingDraft
            locked == ManualLockUpdate(start, b[1], b[2], TRUE)
            first == ManualOf(locked, b)
        IN  \A typed \in AfterTyping(locked, b) :
              LET unlocked == ManualLockUpdate(typed, b[1], b[2], FALSE)
              IN  \A changed \in AfterChange(unlocked, b) :
                    LET second ==
                            ManualOf(ManualLockUpdate(changed, b[1], b[2], TRUE), b)
                        autoBefore == computeAutoPricePerYear(start[b[1]], b[2])
                        autoAfter == computeAutoPricePerYear(changed[b[1]], b[2])
                    IN  /\ ManualOf(unlocked, b) = Null
                        /\ autoAfter = autoBefore => second = first
                        /\ autoAfter # autoBefore => second = Num(autoAfter)
                        /\ ManualOf(typed, b) # Num(autoAfter)
                              => second # ManualOf(typed, b)

\* C18 witness: an unlocked bucket shown by the panel, with a positive
\* automatic price at 10 percent, that was locked and unlocked before (its
\* line's other buckets apart): locking it, typing 500, unlocking, changing
\* the discount to 150 and locking again captures 0, neither the first
\* capture nor 500.
C18_Witness ==
    \E b \in UnlockedBuckets \cap RenderedBuckets :
        LET start == websitePlansPricingDraft
            locked == ManualLockUpdate(start, b[1], b[2], TRUE)
            typed == ManualPriceUpdate(locked, b[1], b[2], Finite(Idr(500, 0)))
            unlocked == ManualLockUpdate(typed, b[1], b[2], FALSE)
            changed == DiscountUpdate(unlocked, b[1], b[2], Finite(150))
            relocked == ManualLockUpdate(changed, b[1], b[2], TRUE)
        IN  /\ isEditingPlans
            /\ BucketOf(b).discount_percent = Finite(10)
            /\ ManualOf(locked, b) = Num(Idr(90000, 0))
            /\ ManualOf(typed, b) = Num(Idr(500, 0))
            /\ ManualOf(relocked, b) = Num(0)

\* C19 as stated: whenever the annual base of a service line is 0, the total
\* of each of its buckets is 0, whatever the discount, the duration and the
\* manual override.
C19_ZeroBaseAnyOverride ==
    \A b \in DraftBuckets :
        computeAnnualBase(LineOf(b)) = 0 => totalForDuration(LineOf(b), b[2]) = 0

\* C19 amended: whenever the annual base of a service line is 0, the total of
\* each of its buckets that is not manually locked is 0, for every discount
\* percent and every duration; a locked bucket shows its manual price times
\* the years whatever the annual base.
C19_ZeroBaseUnlocked ==
    /\ \A b \in UnlockedBuckets :
          computeAnnualBase(LineOf(b)) = 0
             => \A v \in { BucketOf(b).discount_percent } \cup DiscountTexts :
                   totalForDuration(WithDiscount(LineOf(b), b[2], v), b[2]) = 0
    /\ \A b \in LockedBuckets :
          BucketOf(b).manual_price_per_year # Null
             => totalForDuration(LineOf(b), b[2])
                  = MathRoundIdr(Val(BucketOf(b).manual_price_per_year) * b[2])

\* C19 witness: a negative base price, so an annual base of 0, with an
\* unlocked bucket at 10 percent whose total is 0 next to a locked bucket of
\* another line with annual base 0 whose total is 1,000.
C19_Witness ==
    \E b \in UnlockedBuckets, l \in LockedBuckets :
        /\ LineOf(b).base_price = Finite(0 - Idr(7, 0))
        /\ computeAnnualBase(LineOf(b)) = 0
        /\ BucketOf(b).discount_percent = Finite(10)
        /\ totalForDuration(LineOf(b), b[2]) = 0
        /\ computeAnnualBase(LineOf(l)) = 0
        /\ totalForDuration(LineOf(l), l[2]) = Idr(1000, 0)

(***************************************************************************)
(* Properties of the add-on aggregation (SpecAddOns).                      *)
(***************************************************************************)
\* The rows of the table that are active and whose id is selected.
ActiveSelectedRows ==
    { i \in 1..Len(subscriptionAddOnsTable) :
        /\ subscriptionAddOnsTable[i].is_active
        /\ subscriptionAddOnsTable[i].id \in DOMAIN subscriptionAddOns
        /\ subscriptionAddOns[subscriptionAddOnsTable[i].id] }

RECURSIVE PriceSum(_)
PriceSum(S) ==
    IF S = {} THEN 0
    ELSE LET i == CHOOSE x \in S : TRUE
             price == subscriptionAddOnsTable[i].price_idr
         IN  (IF price = Null THEN 0 ELSE Val(price)) + PriceSum(S \ { i })

\* C20: the subscription add-on total is the sum of the prices of exactly the
\* rows of the catalog that are active and whose id has a truthy selection
\* flag: 0 for an empty catalog or an empty selection, nothing for rows that
\* are unselected, inactive or not in the catalog; the checkout's addOnsTotal
\* is the package-scoped total plus that total.
C20_AddOnAggregation ==
    /\ subscriptionAddOnsTotal = PriceSum(ActiveSelectedRows)
    /\ ActiveSelectedRows = {} => subscriptionAddOnsTotal = 0
    /\ addOnsTotal = packageAddOnsTotal + PriceSum(ActiveSelectedRows)

\* C20 witness: a catalog with an active selected row and an inactive
\* selected row, a selection that also names an id the catalog lacks, and a
\* package-scoped total: the add-ons total is 30 + 20.
C20_Witness ==
    /\ addOnsLoaded
    /\ subscriptionAddOnsTable =
          << AddOnRow("b", Num(Money(30, 0)), FALSE), AddOnRow("a", Num(Money(20, 0)), TRUE) >>
    /\ subscriptionAddOns = [id \in { "a", "b", "x" } |-> TRUE]
    /\ packageAddOnsTotal = Money(30, 0)
    /\ subscriptionAddOnsTotal = Money(20, 0)
    /\ addOnsTotal = Money(50, 0)

(***************************************************************************)
(* Properties of the admin panel over packages (SpecPackages).             *)
(***************************************************************************)
\* A whole, non-negative amount of the checkout.
IsPayableAmount(a) == a >= 0 /\ a % Unit = 0

\* A whole, non-negative rupiah amount of the draft.
IsRupiahAmount(u) == u >= 0 /\ u % 2 = 0

\* C21: every amount that is output after the final rounding is a whole
\* number and not negative: the payable amount of the checkout, and for every
\* bucket the admin panel shows, the price per year and the total of the
\* duration, whatever manual price was typed (a negative one included).
C21_WholeNonNegative ==
    /\ totalAfterPromoIdr # Null => IsPayableAmount(Val(totalAfterPromoIdr))
    /\ \A b \in RenderedBuckets :
          /\ IsRupiahAmount(shownPricePerYear(LineOf(b), b[2]))
          /\ IsRupiahAmount(totalForDuration(LineOf(b), b[2]))

(***************************************************************************)
(* Properties of the payment step (SpecPayment).                           *)
(***************************************************************************)
\* The invoice asked for in this step, when one is.
NewInvoice == invoices'[Len(invoices')]

\* The payable amount the claims expect: the subtotal less the applied
\* discount, not below 0, rounded.
ExpectedPayable ==
    LET sub == Val(baseTotalUsd)
        d == AppliedDiscount
        off == IF ~d.nan /\ d.v > 0 THEN d.v ELSE 0
    IN  MathRound(IF off > sub THEN 0 ELSE sub - off)

\* C22: while the subtotal is null, the total after promo and the payable
\* amount are null whatever promo is applied, and starting the payment then
\* asks for no invoice and fails with nothing but the "total not available"
\* toast; an invoice is asked for only with a payable amount, which is the
\* rounded total after promo, not below 0.
C22_NoAmountNoInvoice ==
    /\ [](baseTotalUsd = Null
            => totalAfterPromoUsd = Null /\ totalAfterPromoIdr = Null)
    /\ [][ /\ (~paying /\ baseTotalUsd = Null)
                => /\ UNCHANGED << paying, invoices >>
                   /\ toastTitle' \in { toastTitle,
                                        Num("order.totalNotAvailableTitle") }
           /\ invoices' # invoices
                => /\ baseTotalUsd # Null
                   /\ invoices' = Append(invoices, NewInvoice)
                   /\ NewInvoice.amount_idr = ExpectedPayable
                   /\ NewInvoice.amount_idr >= 0
                   /\ NewInvoice.amount_idr % Unit = 0 ]_vars

\* C22 witness: an invoice of 71 was asked for (100.5 less a promo of 30);
\* later the subtotal went missing while a promo was applied, and the payment
\* was started again: the toast, and still the one invoice.
C22_Witness ==
    /\ baseTotalUsd = Null
    /\ appliedPromo # Null
    /\ toastTitle = Num("order.totalNotAvailableTitle")
    /\ invoices = << Invoice(Money(71, 0), 1, << "A" >>) >>
    /\ ~paying

(***************************************************************************)
(* The lookup of the duration discount (SpecClamp, SpecPricing).           *)
(***************************************************************************)
\* The monthly price (domain + package) / 12 over the requested months, less
\* the percent (taken within 0..100) of every month, plus the add-ons.
LinearTotal(percent) ==
    ((BaseSum \div 12) * RequestedMonths * (100 - NearestBoundary(percent))) \div 100
        + addOnsTotal

\* C23 as stated: in the duration-discount path the percent used is that of
\* a row of the table whose months equal the requested years * 12, and 0 when
\* the table has no such row; the result is the linearly discounted total of
\* the monthly price over those months plus the add-ons total.
C23_ExactRowDecides ==
    (baseTotalPath = "duration" /\ BothBasePrices)
        => IF RowsForDuration # {}
           THEN \E i \in RowsForDuration :
                    baseTotalUsd = Num(LinearTotal(durationRows[i].discount_percent))
           ELSE baseTotalUsd = Num(LinearTotal(0))

\* C23 amended: in the duration-discount path the percent used is that of
\* the last ACTIVE row whose months equal the requested years * 12, and 0 when
\* no active row has that month count (an inactive row of that month count is
\* not looked up); the path is still the duration-discount path, and the
\* result is the linearly discounted total of the monthly price
\* (domain + package) / 12 over years * 12 months plus the add-ons total.
C23_ActiveExactRow ==
    (baseTotalPath = "duration" /\ BothBasePrices)
        => /\ baseTotalUsd = Num(LinearTotal(ExpectedPercent))
           /\ ActiveRowsForDuration = {}
                => baseTotalUsd = Num((BaseSum \div 12) * RequestedMonths + addOnsTotal)

\* C23 witness: the duration path is taken because of an active 36-month
\* row, 12 months are requested, the only 12-month row is inactive at 40
\* percent: the total is the undiscounted one, add-ons included.
C23_Witness ==
    /\ baseTotalPath = "duration" /\ BothBasePrices
    /\ RequestedMonths = 12
    /\ ActiveRowsForDuration = {}
    /\ \E i \in RowsForDuration : durationRows[i].discount_percent = 40
    /\ addOnsTotal > 0 /\ BaseSum > 0
    /\ baseTotalUsd = Num(BaseSum + addOnsTotal)
    /\ baseTotalUsd # Num(LinearTotal(40))

\* The rows of the table with a duration of m months, and the active ones.
RowsOfMonths(m) == { i \in RowIndexes : durationRows[i].duration_months = m }

ActiveRowsOfMonths(m) == { i \in RowsOfMonths(m) : durationRows[i].is_active }

\* The durations that occur in the table.
MonthsInTable == { durationRows[i].duration_months : i \in RowIndexes }

\* C24 as stated: when several rows have the same duration in months, the
\* discount looked up for that duration is that of the last such row in table
\* order.
C24_LastRowWins ==
    \A m \in MonthsInTable :
        (m > 0 /\ Cardinality(RowsOfMonths(m)) > 1)
            => /\ m \in DOMAIN discountByMonths
               /\ discountByMonths[m]
                    = durationRows[LastIndex(RowsOfMonths(m))].discount_percent

\* C24 amended: when several ACTIVE rows have the same duration in months,
\* the discount looked up for that duration, and used at checkout when it is
\* the requested one, is that of the last active such row in table order
\* (inactive rows never enter the lookup); the lookup holds one discount for
\* each positive duration that has an active row, and nothing else.
C24_LastActiveRowWins ==
    /\ DOMAIN discountByMonths
          = { m \in MonthsInTable : m > 0 /\ ActiveRowsOfMonths(m) # {} }
    /\ \A m \in DOMAIN discountByMonths :
          discountByMonths[m]
              = durationRows[LastIndex(ActiveRowsOfMonths(m))].discount_percent
    /\ (YearsChosen /\ BothBasePrices /\ Cardinality(ActiveRowsForDuration) > 1)
          => baseTotalUsd
               = DurationAmount(
                     durationRows[LastIndex(ActiveRowsForDuration)].discount_percent)

\* C24 witness: two active 12-month rows, 50 percent first and 10 percent
\* last, 12 months requested: the total is the one at 10 percent.
C24_Witness ==
    /\ YearsChosen /\ BothBasePrices /\ BaseSum > 0
    /\ Len(durationRows) = 2
    /\ ActiveRowsForDuration = { 1, 2 }
    /\ durationRows[1].discount_percent = 50
    /\ durationRows[2].discount_percent = 10
    /\ baseTotalUsd = DurationAmount(10)
    /\ baseTotalUsd # DurationAmount(50)

\* The keys a draft can be stored under.
PackageKeys == PackageIds \cup { "__no_package_selected" }

\* The record a service line starts from: base price 0 and no bucket.
EmptyLine(mode) == [base_mode |-> mode, base_price |-> Finite(0), durations |-> << >>]

\* C25: the draft is a mapping from package key to draft.  A package without
\* an entry reads as the default record (base price 0, no bucket, Website Only
\* yearly, the other two lines monthly); a step taken while package P is
\* selected (base price, discount, manual price, lock, the ensure-durations
\* effect) adds, removes and changes no entry but P's, and a switch of the
\* package changes no entry at all, so a draft is found as it was left.
C25_OnlySelectedPackage ==
    /\ [](\A k \in PackageKeys :
             k \notin DOMAIN websitePlansPricingDraftByPackage
                => DraftOfPackage(websitePlansPricingDraftByPackage, k)
                     = [website_only |-> EmptyLine("yearly"),
                        blog_social |-> EmptyLine("monthly"),
                        full_digital |-> EmptyLine("monthly")])
    /\ [][ /\ \A k \in PackageKeys \ { selectedPackageDraftKey } :
                /\ k \in DOMAIN websitePlansPricingDraftByPackage'
                     <=> k \in DOMAIN websitePlansPricingDraftByPackage
                /\ DraftOfPackage(websitePlansPricingDraftByPackage', k)
                     = DraftOfPackage(websitePlansPricingDraftByPackage, k)
           /\ DOMAIN websitePlansPricingDraftByPackage' \subseteq PackageKeys
           /\ pricingPackageId' # pricingPackageId
                => UNCHANGED websitePlansPricingDraftByPackage ]_vars

\* The Blog + Social Media line of the draft stored for package k.
StoredLine(k) == websitePlansPricingDraftByPackage[k].blog_social

\* C25 witness: package p1 is selected again after p2 was edited; p1 has its
\* typed base price and an open bucket, p2 its default base price and a
\* locked bucket.
C25_Witness ==
    /\ pricingPackageId = "p1"
    /\ { "p1", "p2" } \subseteq DOMAIN websitePlansPricingDraftByPackage
    /\ 2 \in DOMAIN StoredLine("p1").durations
    /\ 2 \in DOMAIN StoredLine("p2").durations
    /\ StoredLine("p1").base_price = Finite(Idr(105, 1))
    /\ ~StoredLine("p1").durations[2].is_manual_locked
    /\ StoredLine("p2").base_price = Finite(0)
    /\ StoredLine("p2").durations[2].is_manual_locked
    /\ StoredLine("p2").durations[2].discount_percent = Finite(10)

\* C26: whenever the Website Plans panel is rendered with active durations,
\* each of the three service lines of the selected package's draft has a
\* bucket for every active duration, so that the lock flag the panel reads
\* is defined; every state is rendered, the one right after the plans arrive
\* and the one right after the package is switched included.
C26_BucketsDefined ==
    \A key \in WebsitePlanKeys :
        \A i \in DOMAIN activeDurationYears :
            activeDurationYears[i] \in DOMAIN websitePlansPricingDraft[key].durations

\* Every bucket of every stored draft, as << package key, line, years >>.
StoredBuckets ==
    UNION { UNION { { << k, key, y >> :
                        y \in DOMAIN websitePlansPricingDraftByPackage[k][key].durations } :
                    key \in WebsitePlanKeys } :
            k \in DOMAIN websitePlansPricingDraftByPackage }

StoredBucket(b) == websitePlansPricingDraftByPackage[b[1]][b[2]].durations[b[3]]

\* C27: in every state of the admin panel, whatever base prices, discounts
\* and manual prices were typed, locks toggled and packages switched, a
\* bucket that is not manually locked has no manual price per year (null).
C27_UnlockedHasNoManual ==
    \A b \in StoredBuckets :
        ~StoredBucket(b).is_manual_locked
            => StoredBucket(b).manual_price_per_year = Null

\* C27 witness: under p1 the bucket is locked and holds the typed -5; under
\* p2, selected now, the bucket was given a discount and is not locked: it
\* holds no manual price.
C27_Witness ==
    /\ pricingPackageId = "p2"
    /\ << "p1", "blog_social", 2 >> \in StoredBuckets
    /\ << "p2", "blog_social", 2 >> \in StoredBuckets
    /\ StoredBucket(<< "p1", "blog_social", 2 >>)
         = DurationDraft(Finite(0), Num(0 - Idr(5, 0)), TRUE)
    /\ StoredBucket(<< "p2", "blog_social", 2 >>)
         = DurationDraft(Finite(10), Null, FALSE)

(***************************************************************************)
(* The legacy plan path over active and inactive plan rows (SpecLegacy).   *)
(***************************************************************************)
\* The plan rows for the requested years that are active.
ActiveMatchingPlans == { i \in MatchingPlans : subscriptionPlans[i].is_active }

\* C28: only an active legacy plan row can decide the subtotal: when the
\* legacy path is taken, the plan row it selected is active and the subtotal
\* is the price of an active row for the requested years plus the add-ons;
\* a row with is_active = false for the requested years is not selected.
C28_OnlyActivePlan ==
    baseTotalPath = "legacy"
        => /\ Val(selectedPlan).is_active
           /\ \E i \in ActiveMatchingPlans :
                 baseTotalUsd = Num(subscriptionPlans[i].price_usd + addOnsTotal)

(***************************************************************************)
(* No validation without a code and a subtotal (Spec).                     *)
(***************************************************************************)
\* A text without a blank at either end.
IsTrimmed(s) == s = Trim(s)

\* Nothing to validate: the trimmed code is empty or the subtotal is missing.
NothingToValidate(text, total) == Trim(text) = << >> \/ total = Null

\* The effect runs on a change of the text or of the subtotal; with nothing
\* to validate it clears the applied promo, leaves no timer and calls nothing.
EffectWithoutPair ==
    ((promo' # promo \/ baseTotalUsd' # baseTotalUsd)
        /\ NothingToValidate(promo', baseTotalUsd'))
        => /\ appliedPromo' = Null
           /\ timers' = {}
           /\ NewCalls = {} /\ nextReq' = nextReq

\* The apply button with nothing to validate clears the applied promo,
\* schedules no timer and calls nothing.
ApplyWithoutPair ==
    (OnApplyPromo /\ NothingToValidate(promo, baseTotalUsd))
        => /\ appliedPromo' = Null
           /\ timers' = timers
           /\ NewCalls = {} /\ nextReq' = nextReq

\* A call of the validator is made with a trimmed, non-empty code while a
\* code is typed and a subtotal is available.
CallHasPair ==
    NewCalls # {}
        => /\ ~NothingToValidate(promo, baseTotalUsd)
           /\ \A r \in NewCalls : r.code # << >> /\ IsTrimmed(r.code)

\* C29: whenever the trimmed promo code is empty or the subtotal is missing,
\* the debounced effect and the apply button both set the applied promo to
\* null, call no validator and schedule no timer; every timer and every
\* validator call carries a non-empty trimmed code and a subtotal.
C29_NoCallWithoutPair ==
    /\ [](/\ \A t \in timers : t.code # << >> /\ IsTrimmed(t.code)
          /\ \A r \in inflight : r.code # << >> /\ IsTrimmed(r.code)
          /\ NothingToValidate(promo, baseTotalUsd) => timers = {})
    /\ [][EffectWithoutPair /\ ApplyWithoutPair /\ CallHasPair]_vars

\* C29 witness: a code was validated and applied, then the field was
\* emptied: no promo is applied, no timer is pending and no second call was
\* made.
C29_Witness ==
    /\ promo = << >> /\ statePromoCode = << >>
    /\ baseTotalUsd # Null
    /\ lastDone # Null /\ Val(lastDone).ok
    /\ appliedPromo = Null
    /\ timers = {} /\ inflight = {} /\ nextReq = 1

(***************************************************************************)
(* Revealed server keys of the Midtrans card (SpecMidtrans).               *)
(***************************************************************************)
\* The answers of the settings function that carry data.
OkStatusResponses == { res \in StatusResponses : res.ok }

OtherEnv(env) == IF env = "sandbox" THEN "production" ELSE "sandbox"

\* A step in which the reveal call for env returns.
RevealReturnsFor(env) ==
    /\ midtransCall = Num(MidtransRequest("reveal", env))
    /\ midtransCall' = Null

\* A step that hides the key of env from the eye button.
HidesFor(env) ==
    /\ midtransCall = Null /\ midtransCall' = Null
    /\ revealedServerKey[env] # Null /\ revealedServerKey'[env] = Null

\* C30: after every status fetch that succeeds (on mount, on refresh, after
\* a successful save or reset) no server key is revealed for either
\* environment; a key becomes revealed for an environment only in the step
\* in which a reveal call for that environment returns; hiding or revealing
\* one environment leaves the revealed key of the other as it was.
C30_RevealedKeys ==
    [][ /\ FetchStatusReturns(OkStatusResponses)
            => \A env \in MidtransEnv : revealedServerKey'[env] = Null
        /\ \A env \in MidtransEnv :
              /\ (revealedServerKey[env] = Null /\ revealedServerKey'[env] # Null)
                    => RevealReturnsFor(env)
              /\ (RevealReturnsFor(env) \/ HidesFor(env))
                    => revealedServerKey'[OtherEnv(env)]
                         = revealedServerKey[OtherEnv(env)] ]_vars

\* C30 witness: both environments are configured and the keys of both are
\* shown, one reveal after the other, with no call under way.
C30_Witness ==
    /\ \A env \in MidtransEnv : status[env]
    /\ \A env \in MidtransEnv : revealedServerKey[env] = Num("Mid-server-1")
    /\ midtransCall = Null /\ ~loading

====
